---- MODULE Spec2Model ----
(***************************************************************************)
(* VoiceClone-Studio: the speaker store, the training status tracker, the  *)
(* HTTP endpoints that mutate them and the background training pipeline    *)
(* (data-prep, preprocessing 1a/1b/1c, stage-1 trainer, stage-2 trainer,   *)
(* recording of the result), with the per-speaker directories they touch.  *)
(*                                                                         *)
(* Endpoint handlers are `async def` without an await: each is one atomic  *)
(* step.  A background training task is a synchronous function, which the  *)
(* framework runs on a worker thread: its blocking calls are separate      *)
(* steps and interleave with endpoints and with other training tasks.      *)
(* The trainer object is assumed to have been constructed (GPT-SoVITS is   *)
(* installed), and every transcript produced by the ASR collaborator has a *)
(* first line longer than 50 characters (its lines start with an absolute  *)
(* path).                                                                  *)
(*                                                                         *)
(* Besides Spec, the module holds four smaller specifications over the     *)
(* same variables: ScorerSpec applies the two reference selections to the  *)
(* sample lists of a speaker; DispatchSpec serves POST /generate_audio     *)
(* from a generator whose inference service may stop or start after its    *)
(* construction (the service, when it answers, answers 200, and the model  *)
(* files a store names exist); PlaceholderSpec applies the placeholder     *)
(* generator to texts; CrashSpec runs delete_speaker statement by          *)
(* statement and lets the process die in between.                          *)
(***************************************************************************)
EXTENDS Integers, Sequences, FiniteSets, TLC

Speakers == {"alice", "bob"}

\* the speakers the requests of Spec name
Requested == {"alice"}

\* train_speaker refuses fewer samples than this
MinSamples == 3

\* bound: uploads are not modelled beyond this many samples per speaker
MaxSamples == 3

\* bound: number of training tasks the train endpoint may schedule
MaxRuns == 2

\* bound: abnormal outcomes of the environment in one behaviour (a subprocess that
\* exits non-zero or leaves an output out, a row count short of the manifest's, a
\* failed transcription, conversion or file write)
MaxFaults == 2

\* bound: deletions of an existing speaker in one behaviour
MaxDeletes == 1

Runs == 1..MaxRuns

\* bound: length of the sample lists handed to the reference scorer
MaxLen == 3

\* bound: largest number of auxiliary references asked for
MaxCount == 2

VARIABLES
    speakers_data,    \* AudioGeneratorSoVITS.speakers_data (in memory)
    persisted,        \* models/speakers_sovits.json
    training_status,  \* AudioGeneratorSoVITS.training_status
    up,               \* uploads/: number of uploaded originals owned by each speaker
    td,               \* models/training_data/{speaker}: [exists, n]
    md,               \* models/trained_speakers/{speaker}: [exists, info]
    exp,              \* training_experiments/{speaker}
    run,              \* the background training tasks
    resp,             \* the last HTTP response
    faults,           \* how many abnormal outcomes the environment has produced so far
    deletes,          \* how many times an existing speaker has been deleted so far
    audio_files,      \* the speaker's "audio_files" list a reference selection is given
    api_available,    \* AudioGeneratorSoVITS.api_available, set once by __init__
    api_up,           \* whether the inference service answers now
    request,          \* the selection or generation call being served
    response          \* what that call has returned or raised so far

\* the state reference selection and speech generation read and write
genvars == <<audio_files, api_available, api_up, request, response>>

vars ==
    <<speakers_data, persisted, training_status, up, td, md, exp, run, resp, faults,
      deletes, audio_files, api_available, api_up, request, response>>

fsvars == <<up, td, md, exp>>

----------------------------------------------------------------------------
(* Values *)

\* model_info before any training: no "model_info" key
NoInfo == [method |-> "", gpt |-> "", sovits |-> ""]

\* the entry process_reference_audio creates
NewSpeaker == [n |-> 0, trained |-> FALSE, info |-> NoInfo, trained_at |-> 0]

\* a file of rows that does not exist
NoRows == [n |-> 0, run |-> 0]

NoText == [n |-> 0, kind |-> "", run |-> 0]

\* an experiment directory that was never created
NoExp ==
    [exists |-> FALSE, wavs |-> NoRows, text |-> NoText, phon |-> NoRows,
     hub |-> 0, sem |-> NoRows, n2t |-> 0, s1cfg |-> 0, s1 |-> 0,
     s2dir |-> FALSE, s2w |-> 0, s2g |-> 0]

NoDir == [exists |-> FALSE, n |-> 0]

NoModelDir == [exists |-> FALSE, info |-> 0]

\* get_training_status's default for a speaker without an entry
NotStarted == [status |-> "not_started", error |-> "", result |-> NoInfo]

\* the last external step a run launched, and how it ended
NoStep == [step |-> "", res |-> ""]

IdleRun ==
    [pc |-> "idle", sp |-> "", live |-> FALSE, gpt |-> 0, sov |-> "", sovrun |-> 0,
     at |-> "", err |-> "", last |-> NoStep]

NoResp == [op |-> "", sp |-> "", code |-> 0]

\* no selection or generation call
NoRequest == [op |-> ""]

NoResponse == [op |-> ""]

Max(a, b) == IF a >= b THEN a ELSE b

\* the environment produces k more abnormal outcomes
Abnormal(k) == faults + k <= MaxFaults /\ faults' = faults + k

\* 1 when the outcome is abnormal
Cost(abnormal) == IF abnormal THEN 1 ELSE 0

\* the fields of a speaker's entry that training writes, as a store holds them
TrainedFields(store, s) ==
    IF s \in DOMAIN store
    THEN [known |-> TRUE, trained |-> store[s].trained, info |-> store[s].info,
          trained_at |-> store[s].trained_at]
    ELSE [known |-> FALSE, trained |-> FALSE, info |-> NoInfo, trained_at |-> 0]

\* list_speakers: the names it returns
list_speakers == DOMAIN speakers_data

\* get_training_status
get_training_status(s) == training_status[s]

----------------------------------------------------------------------------
\* _load_speakers_data without a speakers file
EmptyStore == [x \in {} |-> NewSpeaker]

Init ==
    /\ speakers_data = EmptyStore
    /\ persisted = EmptyStore
    /\ training_status = [s \in Speakers |-> NotStarted]
    /\ up = [s \in Speakers |-> 0]
    /\ td = [s \in Speakers |-> NoDir]
    /\ md = [s \in Speakers |-> NoModelDir]
    /\ exp = [s \in Speakers |-> NoExp]
    /\ run = [r \in Runs |-> IdleRun]
    /\ resp = NoResp
    /\ faults = 0
    /\ deletes = 0
    /\ audio_files = <<>>
    /\ api_available = FALSE
    /\ api_up = FALSE
    /\ request = NoRequest
    /\ response = NoResponse

----------------------------------------------------------------------------
(* Speaker store *)

\* _save_speakers_data: the whole in-memory store is written out
SaveOf(store) == store

\* process_reference_audio through POST /upload_audio, one file
upload_audio(s) ==
    /\ (s \in DOMAIN speakers_data) => speakers_data[s].n < MaxSamples
    /\ LET old == IF s \in DOMAIN speakers_data THEN speakers_data[s] ELSE NewSpeaker
           new == [old EXCEPT !.n = @ + 1]
           store == [x \in DOMAIN speakers_data \cup {s} |->
                        IF x = s THEN new ELSE speakers_data[x]]
       IN /\ speakers_data' = store
          /\ persisted' = SaveOf(store)
          /\ up' = [up EXCEPT ![s] = @ + 1]
          /\ td' = [td EXCEPT ![s] = [exists |-> TRUE, n |-> @.n + 1]]
          /\ resp' = [op |-> "upload", sp |-> s, code |-> 200]
    /\ UNCHANGED <<training_status, md, exp, run, faults, deletes>>
    /\ UNCHANGED genvars

\* a membership test that finds every name
SpeakerKnownAlways(s) == TRUE

\* the membership test delete_speaker starts with
SpeakerKnown(s) == s \in DOMAIN speakers_data

\* what delete_speaker leaves of the directories it removes
RemovedDir == NoDir

RemovedModelDir == NoModelDir

\* delete_speaker through DELETE /delete_speaker/{speaker_name}
delete_speaker(s) ==
    /\ IF ~SpeakerKnown(s)
       THEN /\ resp' = [op |-> "delete", sp |-> s, code |-> 500]
            /\ UNCHANGED <<speakers_data, persisted, training_status, up, td, md, exp, run,
                          faults, deletes>>
       ELSE LET store == [x \in DOMAIN speakers_data \ {s} |-> speakers_data[x]]
            IN /\ deletes < MaxDeletes
               /\ deletes' = deletes + 1
               /\ td' = [td EXCEPT ![s] = RemovedDir]
               /\ md' = [md EXCEPT ![s] = RemovedModelDir]
               /\ up' = [up EXCEPT ![s] = 0]
               /\ speakers_data' = store
               /\ persisted' = SaveOf(store)
               \* tasks that hold a reference to the removed entry now hold an orphan
               /\ run' = [r \in Runs |->
                             IF run[r].sp = s THEN [run[r] EXCEPT !.live = FALSE] ELSE run[r]]
               /\ resp' = [op |-> "delete", sp |-> s, code |-> 200]
               /\ UNCHANGED <<training_status, exp, faults>>
    /\ UNCHANGED genvars

----------------------------------------------------------------------------
(* Training: the endpoint and the task's entry *)

\* the run the endpoint's background task becomes: the first unused one
FreeRun(r) == run[r].pc = "idle" /\ \A q \in Runs : q < r => run[q].pc # "idle"

\* what POST /train_speaker checks before it schedules the background task
TrainAccepted(s) == s \in list_speakers /\ speakers_data[s].n >= MinSamples

\* POST /train_speaker
train_speaker_endpoint(s) ==
    /\ IF s \notin list_speakers
       THEN /\ resp' = [op |-> "train", sp |-> s, code |-> 404]
            /\ UNCHANGED <<speakers_data, persisted, training_status, up, td, md, exp, run,
                          faults, deletes>>
       ELSE IF ~TrainAccepted(s)
       THEN /\ resp' = [op |-> "train", sp |-> s, code |-> 400]
            /\ UNCHANGED <<speakers_data, persisted, training_status, up, td, md, exp, run,
                          faults, deletes>>
       ELSE /\ \E r \in Runs :
                 /\ FreeRun(r)
                 /\ run' = [run EXCEPT ![r] = [IdleRun EXCEPT !.pc = "queued", !.sp = s]]
            /\ resp' = [op |-> "train", sp |-> s, code |-> 200]
            /\ UNCHANGED <<speakers_data, persisted, training_status, up, td, md, exp,
                          faults, deletes>>
    /\ UNCHANGED genvars

\* the tracker entry train_speaker writes before the pipeline
TrainingEntry == [status |-> "training", error |-> "", result |-> NoInfo]

\* a precondition that does not count the samples
TrainPreconditionKnownOnly(s) == IF s \notin DOMAIN speakers_data THEN "not_found" ELSE ""

\* the precondition train_speaker checks: "" when it passes, else the error raised
TrainPrecondition(s) ==
    IF s \notin DOMAIN speakers_data THEN "not_found"
    ELSE IF speakers_data[s].n < MinSamples THEN "insufficient_samples"
    ELSE ""

\* a task that has returned: only its outcome is kept
Ended(rec, pc, at, e, last) ==
    [IdleRun EXCEPT !.pc = pc, !.sp = rec.sp, !.at = at, !.err = e, !.last = last]

\* train_speaker up to the try block, run by the background task
train_speaker_start(r) ==
    /\ run[r].pc = "queued"
    /\ LET s == run[r].sp
           e == TrainPrecondition(s)
       IN IF e # ""
          THEN /\ run' = [run EXCEPT ![r] = Ended(@, "rejected", "", e, NoStep)]
               /\ UNCHANGED training_status
          ELSE /\ training_status' = [training_status EXCEPT ![s] = TrainingEntry]
               /\ run' = [run EXCEPT ![r].pc = "prep", ![r].live = TRUE]
    /\ UNCHANGED <<speakers_data, persisted, up, td, md, exp, resp, faults, deletes>>
    /\ UNCHANGED genvars

\* the except block of train_speaker: the tracker entry of a failed run
FailedEntry(e) == [status |-> "failed", error |-> e, result |-> NoInfo]

\* a run that ends without a word to the tracker
FailUnrecorded(r, at, e, last) ==
    /\ UNCHANGED training_status
    /\ run' = [run EXCEPT ![r] = Ended(@, "failed", at, e, last)]

\* a run that fails in stage `at` with error text e, its last step being `last`
Fail(r, at, e, last) ==
    /\ training_status' = [training_status EXCEPT ![run[r].sp] = FailedEntry(e)]
    /\ run' = [run EXCEPT ![r] = Ended(@, "failed", at, e, last)]

\* a step of a run that goes on to pc with `last` its last launched step
Goto(r, pc, last) ==
    /\ run' = [run EXCEPT ![r].pc = pc, ![r].last = last]
    /\ UNCHANGED training_status

Step(name, res) == [step |-> name, res |-> res]

----------------------------------------------------------------------------
(* The pipeline: GPTSoVITSTrainer.train_speaker_complete *)

\* what an external step may write for a manifest of n entries: no file, or a file
\* of 0, n - 1 or n rows
RowOutcomes(n) ==
    {[wrote |-> FALSE, n |-> 0]} \cup {[wrote |-> TRUE, n |-> k] : k \in {0, n - 1, n} \cap Nat}

\* the rows file run r's step leaves after outcome o
RowsFile(o, r) == IF o.wrote THEN [n |-> o.n, run |-> r] ELSE NoRows

\* prepare_training_data's copy loop: input_wavs after n samples were copied by run r
\* (the directory is created with exist_ok, older files stay)
CopiedWavs(old, n, r) == [n |-> Max(old.n, n), run |-> r]

\* prepare_training_data's test for an existing, valid transcript manifest
TextReusable(text) == text.run # 0 /\ text.kind = "asr" /\ text.n > 0

\* the transcript manifest prepare_training_data leaves; asr: the ASR collaborator worked
\* (audio_text_map is None: _train_with_sovits_complete supplies none)
PreparedText(old, wavs, copied, asr, r) ==
    IF TextReusable(old) THEN old
    ELSE IF asr THEN [n |-> wavs.n, kind |-> "asr", run |-> r]
    ELSE [n |-> copied, kind |-> "placeholder", run |-> r]

\* _train_with_sovits_complete's lookup of the speaker, then prepare_training_data
prepare_training_data(r) ==
    /\ run[r].pc = "prep"
    /\ LET s == run[r].sp
       IN IF s \notin DOMAIN speakers_data
          THEN \* KeyError before the trainer is called
               /\ Fail(r, "data-prep", "KeyError", run[r].last)
               /\ UNCHANGED <<exp, faults>>
          ELSE \E o \in {"ok", "asr_failed", "copy_failed"} :
                 LET n == speakers_data[s].n
                     wavs == CopiedWavs(exp[s].wavs, n, r)
                 IN /\ Abnormal(Cost(o # "ok"))
                    /\ (o = "asr_failed") => ~TextReusable(exp[s].text)
                    /\ IF o = "copy_failed"
                       THEN \* shutil.copy2 raises
                            /\ exp' = [exp EXCEPT ![s].exists = TRUE]
                            /\ Fail(r, "data-prep", "OSError", Step("prep", "fail"))
                       ELSE /\ exp' = [exp EXCEPT ![s].exists = TRUE, ![s].wavs = wavs,
                                          ![s].text = PreparedText(@, wavs, n, o = "ok", r)]
                            /\ Goto(r, "1a", Step("prep", "ok"))
    /\ UNCHANGED <<speakers_data, persisted, up, td, md, resp, deletes>>
    /\ UNCHANGED genvars

\* run_data_preprocessing's clean-up: the feature directories, logs_s1/ckpt, logs_s2_v2
\* and the two row files are removed; input_wavs, input_text.txt, the checkpoints
\* directly under logs_s1 and 2-name2text.txt are not
Purged(e) ==
    [e EXCEPT !.phon = NoRows, !.hub = 0, !.sem = NoRows,
              !.s2dir = FALSE, !.s2w = 0, !.s2g = 0]

\* a return-code test that lets every exit status pass
StepPassedAlways(ok) == TRUE

\* whether run_data_preprocessing goes on after a subprocess whose exit status was ok
StepPassed(ok) == ok

\* a subprocess step's result as the run records it
StepResult(name, ok) == Step(name, IF ok THEN "ok" ELSE "fail")

\* run_data_preprocessing up to the end of step 1a (1-get-text.py): the clean-up, the
\* test for the manifest, subprocess.run and the return-code test
step_1a(r) ==
    /\ run[r].pc = "1a"
    /\ LET s == run[r].sp
           e == Purged(exp[s])
       IN IF e.text.run = 0
          THEN /\ exp' = [exp EXCEPT ![s] = e]
               /\ Fail(r, "preprocessing", "preprocessing_failed", run[r].last)
               /\ UNCHANGED faults
          ELSE \E ok \in BOOLEAN :
                 IF ~StepPassed(ok)
                 THEN /\ Abnormal(1)
                      /\ exp' = [exp EXCEPT ![s] = e]
                      /\ Fail(r, "preprocessing", "preprocessing_failed", Step("1a", "fail"))
                 ELSE \E o \in RowOutcomes(e.text.n) :
                        /\ Abnormal(Cost(~ok) + Cost(~o.wrote \/ o.n # e.text.n))
                        /\ exp' = [exp EXCEPT ![s] = [e EXCEPT !.phon = RowsFile(o, r)]]
                        /\ Goto(r, "1b", StepResult("1a", ok))
    /\ UNCHANGED <<speakers_data, persisted, up, td, md, resp, deletes>>
    /\ UNCHANGED genvars

\* step 1b (2-get-hubert-wav32k.py)
step_1b(r) ==
    /\ run[r].pc = "1b"
    /\ LET s == run[r].sp
       IN \E ok \in BOOLEAN :
            IF ~StepPassed(ok)
            THEN /\ Abnormal(1)
                 /\ Fail(r, "preprocessing", "preprocessing_failed", Step("1b", "fail"))
                 /\ UNCHANGED exp
            ELSE \E wrote \in BOOLEAN :
                   /\ Abnormal(Cost(~ok) + Cost(~wrote))
                   /\ exp' = [exp EXCEPT ![s].hub = IF wrote THEN r ELSE @]
                   /\ Goto(r, "1c", StepResult("1b", ok))
    /\ UNCHANGED <<speakers_data, persisted, up, td, md, resp, deletes>>
    /\ UNCHANGED genvars

\* run_data_preprocessing's verdict on the semantic-feature table after step 1c:
\* a missing or an empty file fails, a row count that differs from the manifest's
\* only prints a warning
SemanticAccepted(sem, text) == sem.run # 0 /\ sem.n # 0

\* step 1c (3-get-semantic.py) and the checks that follow it
step_1c(r) ==
    /\ run[r].pc = "1c"
    /\ LET s == run[r].sp
       IN \E ok \in BOOLEAN :
            IF ~StepPassed(ok)
            THEN /\ Abnormal(1)
                 /\ Fail(r, "preprocessing", "preprocessing_failed", Step("1c", "fail"))
                 /\ UNCHANGED exp
            ELSE \E o \in RowOutcomes(exp[s].text.n) :
                   LET sem == IF o.wrote THEN RowsFile(o, r) ELSE exp[s].sem
                   IN /\ Abnormal(Cost(~ok) + Cost(~o.wrote \/ o.n # exp[s].text.n))
                      /\ exp' = [exp EXCEPT ![s].sem = sem]
                      /\ IF SemanticAccepted(sem, exp[s].text)
                         THEN Goto(r, "s1", StepResult("1c", ok))
                         ELSE Fail(r, "preprocessing", "preprocessing_failed",
                                   StepResult("1c", ok))
    /\ UNCHANGED <<speakers_data, persisted, up, td, md, resp, deletes>>
    /\ UNCHANGED genvars

\* a validation that does not compare the two row counts
Stage1CheckNonEmpty(e) ==
    IF e.sem.run = 0 \/ e.sem.n = 0 THEN "stage1_failed"
    ELSE IF e.phon.run = 0 THEN "FileNotFoundError"
    ELSE ""

\* train_stage1_gpt's validation: "" when the trainer may be launched, else the
\* error the run ends with (a missing phoneme file makes open() raise)
Stage1Check(e) ==
    IF e.sem.run = 0 \/ e.sem.n = 0 THEN "stage1_failed"
    ELSE IF e.phon.run = 0 THEN "FileNotFoundError"
    ELSE IF e.sem.n # e.phon.n THEN "stage1_failed"
    ELSE ""

\* the oldest of the checkpoints: the sort by modification time not reversed
LeastRecent(old, new) == IF old # 0 THEN old ELSE new

\* ckpt_files sorted by modification time, newest first, and its first entry: `old` is
\* the checkpoint logs_s1 held before the trainer ran, `new` the one the trainer wrote
\* (0: none)
MostRecent(old, new) == IF new # 0 THEN new ELSE old

\* train_stage1_gpt: the validation, s1_config.yaml written, s1_train.py run to its
\* exit, then the newest checkpoint of logs_s1
train_stage1_gpt(r) ==
    /\ run[r].pc = "s1"
    /\ LET s == run[r].sp
           e == Stage1Check(exp[s])
       IN IF e # ""
          THEN /\ Fail(r, "stage1", e, run[r].last)
               /\ UNCHANGED <<exp, faults>>
          ELSE \E ok \in BOOLEAN, wrote \in BOOLEAN :
                 LET ckpt == MostRecent(exp[s].s1, IF wrote THEN r ELSE 0)
                 IN /\ Abnormal(Cost(~ok) + Cost(~wrote))
                    /\ exp' = [exp EXCEPT ![s].s1cfg = r, ![s].s1 = IF wrote THEN r ELSE @]
                    /\ IF ~ok \/ ckpt = 0
                       THEN Fail(r, "stage1", "stage1_failed", StepResult("s1", ok))
                       ELSE /\ run' = [run EXCEPT ![r].pc = "s2", ![r].gpt = ckpt,
                                          ![r].last = Step("s1", "ok")]
                            /\ UNCHANGED training_status
    /\ UNCHANGED <<speakers_data, persisted, up, td, md, resp, deletes>>
    /\ UNCHANGED genvars

\* train_stage2_sovits's preconditions: "" when they hold, else the error raised
Stage2Check(e) ==
    IF e.hub = 0 THEN "ValueError"
    ELSE IF e.n2t = 0 /\ e.phon.run = 0 THEN "ValueError"
    ELSE ""

\* what the stage-2 trainer leaves in logs_s2_v2, and whether a conversion of a raw
\* checkpoint works
Stage2Outcomes ==
    {[out |-> "weight", conv |-> TRUE], [out |-> "raw", conv |-> TRUE],
     [out |-> "raw", conv |-> FALSE], [out |-> "none", conv |-> TRUE]}

\* train_stage2_sovits: the preconditions, 2-name2text.txt and logs_s2_v2 created,
\* s2_train.py run to its exit, then an exported weight file if there is one, else
\* the newest G_ checkpoint, converted when the conversion works
train_stage2_sovits(r) ==
    /\ run[r].pc = "s2"
    /\ LET s == run[r].sp
           e == Stage2Check(exp[s])
       IN IF e # ""
          THEN /\ Fail(r, "stage2", e, run[r].last)
               /\ UNCHANGED <<exp, faults>>
          ELSE \E ok \in BOOLEAN, o \in Stage2Outcomes :
                 LET n2t == IF exp[s].n2t = 0 THEN exp[s].phon.run ELSE exp[s].n2t
                     w == IF o.out = "weight" THEN r ELSE exp[s].s2w
                     g == IF o.out # "none" THEN r ELSE exp[s].s2g
                     w2 == IF ok /\ w = 0 /\ g # 0 /\ o.conv THEN r ELSE w
                 IN /\ Abnormal(Cost(~ok) + Cost(o.out # "weight") + Cost(~o.conv))
                    /\ exp' = [exp EXCEPT ![s].n2t = n2t, ![s].s2dir = TRUE,
                                       ![s].s2w = w2, ![s].s2g = g]
                    /\ IF ~ok \/ (w = 0 /\ g = 0)
                       THEN Fail(r, "stage2", "stage2_failed", StepResult("s2", ok))
                       ELSE /\ run' = [run EXCEPT ![r].pc = "record",
                                          ![r].sov = IF w2 # 0 THEN "weight" ELSE "raw",
                                          ![r].sovrun = IF w2 # 0 THEN w2 ELSE g,
                                          ![r].last = Step("s2", "ok")]
                            /\ UNCHANGED training_status
    /\ UNCHANGED <<speakers_data, persisted, up, td, md, resp, deletes>>
    /\ UNCHANGED genvars

----------------------------------------------------------------------------
(* Recording the result: _train_with_sovits_complete and train_speaker *)

\* the result _train_with_sovits_complete returns for a completed pipeline
ResultOf(rec) ==
    [method |-> "gpt_sovits_trained",
     gpt |-> IF rec.gpt # 0 THEN "logs_s1/ckpt" ELSE "",
     sovits |-> IF rec.sov = "weight" THEN "logs_s2_v2/weight"
                ELSE IF rec.sov = "raw" THEN "logs_s2_v2/G" ELSE ""]

\* os.path.exists of a model path of speaker s
FileExists(e, path) ==
    \/ path = "logs_s1/ckpt" /\ e.s1 # 0
    \/ path = "logs_s2_v2/weight" /\ e.s2dir /\ e.s2w # 0
    \/ path = "logs_s2_v2/G" /\ e.s2dir /\ e.s2g # 0

\* train_speaker's update of the speaker entry it holds
MarkTrained(entry, result, r) ==
    [entry EXCEPT !.trained = TRUE, !.info = result, !.trained_at = r]

\* a completed entry whose status is stored before its result
CompletedEntryTorn(result) == [status |-> "completed", error |-> "", result |-> NoInfo]

\* the tracker entry of a completed run
CompletedEntry(result) == [status |-> "completed", error |-> "", result |-> result]

\* what is done with the pipeline's result: model_info.json is written, the entry
\* train_speaker holds is updated, the store is saved, the tracker entry is set
RecordOutcomes == {"ok", "info_failed", "save_failed"}

\* _train_with_sovits_complete after the pipeline, then train_speaker to its return
record_result(r) ==
    /\ run[r].pc = "record"
    /\ LET s == run[r].sp
           result == ResultOf(run[r])
           store == IF run[r].live
                    THEN [speakers_data EXCEPT ![s] = MarkTrained(@, result, r)]
                    ELSE speakers_data
       IN \E o \in RecordOutcomes :
            /\ Abnormal(Cost(o # "ok"))
            /\ md' = [md EXCEPT ![s] = [exists |-> TRUE,
                                        info |-> IF o = "info_failed" THEN @.info ELSE r]]
            /\ speakers_data' = IF o = "info_failed" THEN speakers_data ELSE store
            /\ persisted' = IF o = "ok" THEN SaveOf(store) ELSE persisted
            /\ IF o = "ok"
               THEN /\ training_status' =
                           [training_status EXCEPT ![s] = CompletedEntry(result)]
                    /\ run' = [run EXCEPT ![r] = Ended(@, "done", "", "", run[r].last)]
               ELSE Fail(r, "record", "OSError", run[r].last)
    /\ UNCHANGED <<up, td, exp, resp, deletes>>
    /\ UNCHANGED genvars

----------------------------------------------------------------------------
Next ==
    \/ \E s \in Requested : upload_audio(s)
    \/ \E s \in Requested : delete_speaker(s)
    \/ \E s \in Requested : train_speaker_endpoint(s)
    \/ \E r \in Runs : train_speaker_start(r)
    \/ \E r \in Runs : prepare_training_data(r)
    \/ \E r \in Runs : step_1a(r)
    \/ \E r \in Runs : step_1b(r)
    \/ \E r \in Runs : step_1c(r)
    \/ \E r \in Runs : train_stage1_gpt(r)
    \/ \E r \in Runs : train_stage2_sovits(r)
    \/ \E r \in Runs : record_result(r)

Spec == Init /\ [][Next]_vars

----------------------------------------------------------------------------
(* Reference selection *)

\* the window of durations the inference service accepts, in hundredths of a second
MinDuration == 300

MaxDuration == 1000

\* durations of uploaded samples, in hundredths of a second: just below the window,
\* its lower edge, its centre, inside its upper part, its upper edge, just above it
Durations == {296, 300, 650, 800, 1000, 1004}

SampleRates == {16000, 22050, 32000}

\* an entry of a speaker's "audio_files"; its place in upload order stands for its path
Sample(i, d, sr) == [path |-> i, duration |-> d, sample_rate |-> sr]

NoSample == Sample(0, 0, 0)

\* the "audio_files" list of the samples whose durations and rates f gives, in order
SampleList(f) == [i \in DOMAIN f |-> Sample(i, f[i][1], f[i][2])]

\* f"{duration:.1f}": a duration rounded to tenths of a second
Format1f(d) == (d + 5) \div 10

\* _calculate_audio_quality_score
calculate_audio_quality_score(audio_info) ==
    LET duration == audio_info.duration
        sample_rate == audio_info.sample_rate
        by_duration ==
            IF 1000 <= duration /\ duration <= 2000 THEN 30
            ELSE IF 800 <= duration /\ duration <= 2500 THEN 20
            ELSE IF 500 <= duration /\ duration <= 3000 THEN 10
            ELSE 0
        by_rate ==
            IF sample_rate >= 32000 THEN 20
            ELSE IF sample_rate >= 22050 THEN 10
            ELSE 0
        score == 50 + by_duration + by_rate
    IN IF score <= 100 THEN score ELSE 100

\* a window that leaves its edges out
EligibleInside(audio) == MinDuration < audio.duration /\ audio.duration < MaxDuration

\* the filter of both selections: 3.0 <= duration <= 10.0
Eligible(audio) == MinDuration <= audio.duration /\ audio.duration <= MaxDuration

valid_audios(files) == SelectSeq(files, Eligible)

\* an insertion that puts a pair before the pairs of equal score
InsertBeforeEqual(x, sorted) ==
    LET k == Cardinality({i \in 1..Len(sorted) : sorted[i][1] > x[1]})
    IN SubSeq(sorted, 1, k) \o <<x>> \o SubSeq(sorted, k + 1, Len(sorted))

\* one insertion of list.sort(reverse=True, key=score): the sort is stable, a pair goes
\* after the pairs of greater or equal score that preceded it in the list
Insert(x, sorted) ==
    LET k == Cardinality({i \in 1..Len(sorted) : sorted[i][1] >= x[1]})
    IN SubSeq(sorted, 1, k) \o <<x>> \o SubSeq(sorted, k + 1, Len(sorted))

RECURSIVE SortDescending(_)
\* scored_audios.sort(reverse=True, key=lambda x: x[0])
SortDescending(pairs) ==
    IF pairs = <<>> THEN <<>>
    ELSE Insert(pairs[Len(pairs)], SortDescending(SubSeq(pairs, 1, Len(pairs) - 1)))

\* scored_audios after the sort: (score, audio) pairs of the eligible samples
scored_audios(files) ==
    LET valid == valid_audios(files)
    IN SortDescending([i \in 1..Len(valid) |->
                          <<calculate_audio_quality_score(valid[i]), valid[i]>>])

Min(a, b) == IF a <= b THEN a ELSE b

\* a slice that starts at the first pair
SliceFromFirst(scored, aux_count) ==
    [i \in 1..aux_count |-> scored[i][2]]

\* [audio for _, audio in scored_audios[1:aux_count+1]]
Slice(scored, aux_count) ==
    [i \in 1..aux_count |-> scored[i + 1][2]]

\* what a selection has not returned yet
Unset == [state |-> "unset", error |-> "", durations |-> <<>>, scored |-> <<>>,
          audio |-> NoSample, audios |-> <<>>]

\* _select_best_reference_audio(audio_files): what it returns or raises
BestReference(files) ==
    IF files = <<>>
    THEN [Unset EXCEPT !.state = "raised", !.error = "no_audio"]
    ELSE IF valid_audios(files) = <<>>
    THEN [Unset EXCEPT !.state = "raised", !.error = "no_eligible",
                       !.durations = [i \in 1..Len(files) |-> Format1f(files[i].duration)]]
    ELSE LET scored == scored_audios(files)
         IN [Unset EXCEPT !.state = "returned", !.scored = scored, !.audio = scored[1][2]]

\* _select_auxiliary_references(audio_files, count): what it returns
AuxiliaryReferences(files, count) ==
    IF Len(files) <= 1 \/ Len(valid_audios(files)) <= 1
    THEN [Unset EXCEPT !.state = "returned"]
    ELSE LET scored == scored_audios(files)
             aux_count == Min(count, Len(scored) - 1)
         IN [Unset EXCEPT !.state = "returned", !.scored = scored,
                          !.audios = Slice(scored, aux_count)]

\* a call of _select_best_reference_audio on the speaker's samples
select_best_reference_audio ==
    /\ response.best.state = "unset"
    /\ response' = [response EXCEPT !.best = BestReference(audio_files)]
    /\ UNCHANGED <<audio_files, api_available, api_up, request>>
    /\ UNCHANGED <<speakers_data, persisted, training_status, up, td, md, exp, run, resp,
                   faults, deletes>>

\* a call of _select_auxiliary_references on the speaker's samples
select_auxiliary_references ==
    /\ response.aux.state = "unset"
    /\ response' = [response EXCEPT !.aux = AuxiliaryReferences(audio_files, request.count)]
    /\ UNCHANGED <<audio_files, api_available, api_up, request>>
    /\ UNCHANGED <<speakers_data, persisted, training_status, up, td, md, exp, run, resp,
                   faults, deletes>>

\* a speaker's samples and the number of auxiliary references a caller asks for
ScorerInit ==
    /\ speakers_data = EmptyStore
    /\ persisted = EmptyStore
    /\ training_status = [s \in Speakers |-> NotStarted]
    /\ up = [s \in Speakers |-> 0]
    /\ td = [s \in Speakers |-> NoDir]
    /\ md = [s \in Speakers |-> NoModelDir]
    /\ exp = [s \in Speakers |-> NoExp]
    /\ run = [r \in Runs |-> IdleRun]
    /\ resp = NoResp
    /\ faults = 0
    /\ deletes = 0
    /\ api_available = FALSE
    /\ api_up = FALSE
    /\ \E n \in 0..MaxLen : \E f \in [1..n -> Durations \X SampleRates] :
          audio_files = SampleList(f)
    /\ request \in {[op |-> "select", count |-> c] : c \in 0..MaxCount}
    /\ response = [best |-> Unset, aux |-> Unset]

ScorerNext ==
    \/ select_best_reference_audio
    \/ select_auxiliary_references

ScorerSpec == ScorerInit /\ [][ScorerNext]_vars
----------------------------------------------------------------------------
(* Speech generation *)

\* bound: length in characters of the texts of POST /generate_audio requests
MaxRequestChars == 2

\* bound: length in characters of the texts handed to the placeholder generator
MaxChars == 302

\* a text, by what the generators read of it: len(text) and len(text.split()); a text of
\* w words has at least w characters that are not blank and w - 1 blanks between them
TextsUpTo(n) == {t \in [chars : 0..n, words : 0..n] : 2 * t.words <= t.chars + 1}

\* language codes in lower case; a caller may also spell a code in upper case
LanguageCodes == {"zh", "zh-cn", "en"}

Languages == {[code |-> c, upper |-> u] : c \in LanguageCodes, u \in BOOLEAN}

\* language_mapping, applied to language.lower(); any other code is passed on as given
language_mapping ==
    [c \in {"zh-cn", "zh-tw", "en-us", "en-gb", "ja-jp", "ko-kr"} |->
        IF c \in {"zh-cn", "zh-tw"} THEN "zh"
        ELSE IF c \in {"en-us", "en-gb"} THEN "en"
        ELSE IF c = "ja-jp" THEN "ja" ELSE "ko"]

MappedLanguage(language) ==
    IF language.code \in DOMAIN language_mapping
    THEN [code |-> language_mapping[language.code], upper |-> FALSE]
    ELSE language

\* language.startswith('zh')
StartsWithZh(language) == ~language.upper /\ language.code \in {"zh", "zh-cn", "zh-tw"}

\* an audio file written to outputs/
NoClip == [kind |-> "", duration |-> 0]

\* a request sent to the inference service
NoCall == [sent |-> FALSE, gpt |-> "", sovits |-> "", ref |-> NoSample, aux |-> <<>>]

\* what a generation has neither produced nor raised
NoOutcome == [ok |-> FALSE, error |-> "", via |-> "", clip |-> NoClip, call |-> NoCall]

Raised(error) == [NoOutcome EXCEPT !.error = error]

\* a bound of the estimate from above only
ClampAbove(estimated) == Min(estimated, 300)

\* max(1.0, min(estimated_duration, 30.0)), in tenths of a second
Clamp(estimated) == Max(10, Min(estimated, 300))

\* _generate_placeholder: the silent clip it writes; durations in tenths of a second.
\* The array written holds int(duration * 32000) zeros.
PlaceholderClip(text, language) ==
    LET estimated_duration ==
            IF StartsWithZh(language) THEN text.chars * 3 ELSE text.words * 2
    IN [kind |-> "silence", duration |-> Clamp(estimated_duration)]

\* GPTSoVITSAPIClient.generate_speech, and generate_with_trained_model after its checks of
\* the paths: True when the service answers 200; a refused connection is caught and
\* gives False
ApiAnswers == api_up

\* _generate_with_trained_model
generate_with_trained_model(text, model_info, files, language) ==
    LET best_ref == BestReference(files)
        aux_refs == AuxiliaryReferences(files, 3)
        call == [sent |-> TRUE, gpt |-> model_info.gpt, sovits |-> model_info.sovits,
                 ref |-> best_ref.audio, aux |-> aux_refs.audios]
    IN IF model_info.gpt = "" \/ model_info.sovits = "" THEN Raised("model_paths_incomplete")
       ELSE IF best_ref.state = "raised" THEN Raised(best_ref.error)
       ELSE IF ~ApiAnswers THEN [Raised("api_failed") EXCEPT !.call = call]
       ELSE [NoOutcome EXCEPT !.ok = TRUE, !.via = "trained", !.call = call,
                              !.clip = [kind |-> "speech", duration |-> 0]]

\* _generate_with_api_reference
generate_with_api_reference(text, files, language) ==
    LET best_ref == BestReference(files)
        aux_refs == AuxiliaryReferences(files, 5)
        call == [sent |-> TRUE, gpt |-> "", sovits |-> "",
                 ref |-> best_ref.audio, aux |-> aux_refs.audios]
    IN IF best_ref.state = "raised" THEN Raised(best_ref.error)
       ELSE IF ~ApiAnswers THEN [Raised("api_failed") EXCEPT !.call = call]
       ELSE [NoOutcome EXCEPT !.ok = TRUE, !.via = "reference", !.call = call,
                              !.clip = [kind |-> "speech", duration |-> 0]]

\* generate_speech: the outcome for the text, speaker and language of a request
generate_speech(text, speaker_name, language_given) ==
    LET language == MappedLanguage(language_given)
    IN IF speaker_name \notin DOMAIN speakers_data THEN Raised("unknown_speaker")
       ELSE IF ~speakers_data[speaker_name].trained THEN Raised("not_trained")
       ELSE LET model_info == speakers_data[speaker_name].info
            IN IF model_info.method = "gpt_sovits_trained" /\ api_available
               THEN generate_with_trained_model(text, model_info, audio_files, language)
               ELSE IF api_available
               THEN generate_with_api_reference(text, audio_files, language)
               ELSE [NoOutcome EXCEPT !.ok = TRUE, !.via = "placeholder",
                                      !.clip = PlaceholderClip(text, language)]

\* the body POST /generate_audio answers with when generate_speech returns a path:
\* {"status": "success", "message": "音频生成成功", ...}
SuccessBody == [status |-> "success", message |-> "audio generated"]

\* the body of an HTTPException
ErrorBody == [status |-> "", message |-> ""]

\* POST /generate_audio
generate_audio(text, speaker_name, language) ==
    LET outcome == generate_speech(text, speaker_name, language)
    IN /\ request' = [op |-> "generate", sp |-> speaker_name, up |-> api_up]
       /\ response' = [code |-> IF outcome.ok THEN 200 ELSE 500,
                       body |-> IF outcome.ok THEN SuccessBody ELSE ErrorBody,
                       detail |-> outcome.error,
                       via |-> outcome.via,
                       clip |-> outcome.clip,
                       call |-> outcome.call]
       /\ UNCHANGED <<audio_files, api_available, api_up>>
       /\ UNCHANGED <<speakers_data, persisted, training_status, up, td, md, exp, run, resp,
                      faults, deletes>>

\* the inference service stops or starts; api_available keeps the answer __init__ got
service_changes ==
    /\ api_up' = ~api_up
    /\ UNCHANGED <<audio_files, api_available, request, response>>
    /\ UNCHANGED <<speakers_data, persisted, training_status, up, td, md, exp, run, resp,
                   faults, deletes>>

\* the lists process_reference_audio builds: every sample is stored at 32000 Hz
UploadedLists(n) == {SampleList([i \in 1..n |-> <<d[i], 32000>>]) : d \in [1..n -> Durations]}

\* the model_info a completed training records
TrainedInfos ==
    {[method |-> "gpt_sovits_trained", gpt |-> g, sovits |-> "logs_s2_v2/weight"] :
        g \in {"logs_s1/ckpt", ""}}

\* the stores that hold at most the speaker "alice", with her samples
DispatchStores ==
    {<<EmptyStore, <<>>>>}
    \cup {<<[x \in {"alice"} |-> [NewSpeaker EXCEPT !.n = Len(l)]], l>> :
             l \in UNION {UploadedLists(n) : n \in 1..MaxLen}}
    \cup {<<[x \in {"alice"} |-> MarkTrained([NewSpeaker EXCEPT !.n = Len(l)], i, 1)], l>> :
             l \in UNION {UploadedLists(n) : n \in MinSamples..MaxLen}, i \in TrainedInfos}

\* the generator as __init__ leaves it: api_available is what check_api_health answered
DispatchInit ==
    /\ \E sl \in DispatchStores : speakers_data = sl[1] /\ persisted = sl[1] /\ audio_files = sl[2]
    /\ training_status = [s \in Speakers |-> NotStarted]
    /\ up = [s \in Speakers |-> 0]
    /\ td = [s \in Speakers |-> NoDir]
    /\ md = [s \in Speakers |-> NoModelDir]
    /\ exp = [s \in Speakers |-> NoExp]
    /\ run = [r \in Runs |-> IdleRun]
    /\ resp = NoResp
    /\ faults = 0
    /\ deletes = 0
    /\ api_up \in BOOLEAN
    /\ api_available = api_up
    /\ request = NoRequest
    /\ response = [code |-> 0, body |-> ErrorBody, detail |-> "", via |-> "", clip |-> NoClip,
                   call |-> NoCall]

DispatchNext ==
    \/ \E text \in TextsUpTo(MaxRequestChars), s \in Speakers, language \in Languages :
          generate_audio(text, s, language)
    \/ service_changes

DispatchSpec == DispatchInit /\ [][DispatchNext]_vars

\* a call of _generate_placeholder with the text and language of the request
generate_placeholder ==
    /\ response = NoClip
    /\ response' = PlaceholderClip(request.text, request.language)
    /\ UNCHANGED <<audio_files, api_available, api_up, request>>
    /\ UNCHANGED <<speakers_data, persisted, training_status, up, td, md, exp, run, resp,
                   faults, deletes>>

PlaceholderInit ==
    /\ speakers_data = EmptyStore
    /\ persisted = EmptyStore
    /\ training_status = [s \in Speakers |-> NotStarted]
    /\ up = [s \in Speakers |-> 0]
    /\ td = [s \in Speakers |-> NoDir]
    /\ md = [s \in Speakers |-> NoModelDir]
    /\ exp = [s \in Speakers |-> NoExp]
    /\ run = [r \in Runs |-> IdleRun]
    /\ resp = NoResp
    /\ faults = 0
    /\ deletes = 0
    /\ audio_files = <<>>
    /\ api_available = FALSE
    /\ api_up = FALSE
    /\ request \in {[op |-> "placeholder", text |-> t, language |-> l] :
                      t \in TextsUpTo(MaxChars), l \in Languages}
    /\ response = NoClip

PlaceholderNext == generate_placeholder

PlaceholderSpec == PlaceholderInit /\ [][PlaceholderNext]_vars

----------------------------------------------------------------------------
(* delete_speaker step by step, with a crash of the process *)

\* no delete_speaker call is running
NoDelete == [op |-> "", sp |-> "", pc |-> ""]

\* delete_speaker up to its membership test
delete_begin(s) ==
    /\ request.op # "delete"
    /\ IF ~SpeakerKnown(s)
       THEN /\ resp' = [op |-> "delete", sp |-> s, code |-> 500]
            /\ UNCHANGED request
       ELSE /\ request' = [op |-> "delete", sp |-> s, pc |-> "training_data"]
            /\ UNCHANGED resp
    /\ UNCHANGED <<speakers_data, persisted, training_status, up, td, md, exp, run, faults,
                   deletes, audio_files, api_available, api_up, response>>

\* the next statement of the delete_speaker call that is running: the training-data
\* directory is removed, then the model directory, then the uploaded originals one by
\* one, then the entry is taken out of the store, then the store is saved
delete_step ==
    /\ request.op = "delete"
    /\ LET s == request.sp
       IN CASE request.pc = "training_data" ->
                 /\ td' = [td EXCEPT ![s] = RemovedDir]
                 /\ request' = [request EXCEPT !.pc = "model"]
                 /\ UNCHANGED <<speakers_data, persisted, up, md, resp>>
            [] request.pc = "model" ->
                 /\ md' = [md EXCEPT ![s] = RemovedModelDir]
                 /\ request' = [request EXCEPT !.pc = "originals"]
                 /\ UNCHANGED <<speakers_data, persisted, up, td, resp>>
            [] request.pc = "originals" ->
                 /\ up' = [up EXCEPT ![s] = Max(@ - 1, 0)]
                 /\ request' = [request EXCEPT !.pc = IF up[s] <= 1 THEN "del" ELSE @]
                 /\ UNCHANGED <<speakers_data, persisted, td, md, resp>>
            [] request.pc = "del" ->
                 /\ speakers_data' = [x \in DOMAIN speakers_data \ {s} |-> speakers_data[x]]
                 /\ request' = [request EXCEPT !.pc = "save"]
                 /\ UNCHANGED <<persisted, up, td, md, resp>>
            [] request.pc = "save" ->
                 /\ persisted' = SaveOf(speakers_data)
                 /\ resp' = [op |-> "delete", sp |-> s, code |-> 200]
                 /\ request' = NoDelete
                 /\ UNCHANGED <<speakers_data, up, td, md>>
    /\ UNCHANGED <<training_status, exp, run, faults, deletes, audio_files, api_available,
                   api_up, response>>

\* the process dies while delete_speaker runs and is started again: __init__ loads the
\* store from the speakers file
crash_and_restart ==
    /\ request.op = "delete"
    /\ speakers_data' = persisted
    /\ request' = [op |-> "restarted", sp |-> request.sp, pc |-> request.pc]
    /\ resp' = NoResp
    /\ UNCHANGED <<persisted, training_status, up, td, md, exp, run, faults, deletes,
                   audio_files, api_available, api_up, response>>

CrashInit ==
    /\ speakers_data = EmptyStore
    /\ persisted = EmptyStore
    /\ training_status = [s \in Speakers |-> NotStarted]
    /\ up = [s \in Speakers |-> 0]
    /\ td = [s \in Speakers |-> NoDir]
    /\ md = [s \in Speakers |-> NoModelDir]
    /\ exp = [s \in Speakers |-> NoExp]
    /\ run = [r \in Runs |-> IdleRun]
    /\ resp = NoResp
    /\ faults = 0
    /\ deletes = 0
    /\ audio_files = <<>>
    /\ api_available = FALSE
    /\ api_up = FALSE
    /\ request = NoDelete
    /\ response = NoResponse

\* POST /upload_audio; endpoints do not interleave with each other: no upload while
\* delete_speaker runs
upload_between_deletes(s) == request.op # "delete" /\ upload_audio(s)

CrashNext ==
    \/ \E s \in Speakers : upload_between_deletes(s)
    \/ \E s \in Speakers : delete_begin(s)
    \/ delete_step
    \/ crash_and_restart

CrashSpec == CrashInit /\ [][CrashNext]_vars

----------------------------------------------------------------------------
(* Progress of the background tasks *)

\* the next statement of training task r: a worker thread runs it, the subprocess it
\* waits for exits
RunStep(r) ==
    \/ train_speaker_start(r)
    \/ prepare_training_data(r)
    \/ step_1a(r)
    \/ step_1b(r)
    \/ step_1c(r)
    \/ train_stage1_gpt(r)
    \/ train_stage2_sovits(r)
    \/ record_result(r)

\* Spec with worker threads that are scheduled and subprocesses that exit
LiveSpec == Spec /\ \A r \in Runs : WF_vars(RunStep(r))

----------------------------------------------------------------------------
(* Two tasks for two speakers: the end of train_speaker statement by statement *)

\* the two background tasks of PairSpec
PairRuns == {1, 2}

\* the speaker each of them trains
PairSpeaker(r) == IF r = 1 THEN "alice" ELSE "bob"

\* what json.dump raises when a dict it iterates gains a key
DictChanged == "RuntimeError: dictionary changed size during iteration"

\* both speakers uploaded and never trained, one accepted training request for each
PairInit ==
    /\ \E n \in [Speakers -> MinSamples..MaxSamples] :
         /\ speakers_data = [s \in Speakers |-> [NewSpeaker EXCEPT !.n = n[s]]]
         /\ persisted = [s \in Speakers |-> [NewSpeaker EXCEPT !.n = n[s]]]
         /\ up = n
         /\ td = [s \in Speakers |-> [exists |-> TRUE, n |-> n[s]]]
    /\ training_status = [s \in Speakers |-> NotStarted]
    /\ md = [s \in Speakers |-> NoModelDir]
    /\ exp = [s \in Speakers |-> NoExp]
    /\ run = [r \in Runs |->
                 IF r \in PairRuns
                 THEN [IdleRun EXCEPT !.pc = "queued", !.sp = PairSpeaker(r)]
                 ELSE IdleRun]
    /\ resp = NoResp
    /\ faults = 0
    /\ deletes = 0
    /\ audio_files = <<>>
    /\ api_available = FALSE
    /\ api_up = FALSE
    /\ request = NoRequest
    /\ response = NoResponse

\* _train_with_sovits_complete after the pipeline: model_info.json is written
write_model_info(r) ==
    /\ run[r].pc = "record"
    /\ LET s == run[r].sp
       IN \E ok \in BOOLEAN :
            /\ Abnormal(Cost(~ok))
            /\ IF ok
               THEN /\ md' = [md EXCEPT ![s] = [exists |-> TRUE, info |-> r]]
                    /\ Goto(r, "mark", run[r].last)
               ELSE /\ md' = [md EXCEPT ![s].exists = TRUE]
                    /\ Fail(r, "record", "OSError", run[r].last)
    /\ UNCHANGED <<speakers_data, persisted, up, td, exp, resp, deletes>>
    /\ UNCHANGED genvars

\* whether train_speaker's update adds keys to the entry: "model_info", "trained_at"
\* and "training_epochs" are new to an entry that was never trained
AddsKeys(entry) == entry.trained_at = 0

\* train_speaker's update of the entry; a json.dump of another task that is under way
\* iterates a store whose entry has gained keys
mark_trained(r) ==
    /\ run[r].pc = "mark"
    /\ LET s == run[r].sp
           grows == run[r].live /\ AddsKeys(speakers_data[s])
       IN /\ speakers_data' =
                 IF run[r].live
                 THEN [speakers_data EXCEPT ![s] = MarkTrained(@, ResultOf(run[r]), r)]
                 ELSE speakers_data
          /\ run' = [q \in Runs |->
                       IF q = r THEN [run[r] EXCEPT !.pc = "save"]
                       ELSE IF run[q].pc = "saving" /\ grows
                       THEN [run[q] EXCEPT !.pc = "saving_changed"]
                       ELSE run[q]]
    /\ UNCHANGED <<persisted, training_status, up, td, md, exp, resp, faults, deletes>>
    /\ UNCHANGED genvars

\* _save_speakers_data opens the speakers file and json.dump starts to iterate the store
save_begin(r) ==
    /\ run[r].pc = "save"
    /\ Goto(r, "saving", run[r].last)
    /\ UNCHANGED <<speakers_data, persisted, up, td, md, exp, resp, faults, deletes>>
    /\ UNCHANGED genvars

\* how the json.dump of a task ends: ok, the file cannot be written or, when an entry
\* has gained keys meanwhile and the iteration was inside it, RuntimeError
SaveOutcomes(pc) ==
    {"ok", "save_failed"} \cup (IF pc = "saving_changed" THEN {"raced"} ELSE {})

\* json.dump to its end, then train_speaker to its return
save_end(r) ==
    /\ run[r].pc \in {"saving", "saving_changed"}
    /\ LET s == run[r].sp
       IN \E o \in SaveOutcomes(run[r].pc) :
            /\ Abnormal(Cost(o = "save_failed"))
            /\ persisted' = IF o = "ok" THEN SaveOf(speakers_data) ELSE persisted
            /\ IF o = "ok"
               THEN /\ training_status' =
                           [training_status EXCEPT ![s] = CompletedEntry(ResultOf(run[r]))]
                    /\ run' = [run EXCEPT ![r] = Ended(@, "done", "", "", run[r].last)]
               ELSE Fail(r, "record", IF o = "raced" THEN DictChanged ELSE "OSError",
                         run[r].last)
    /\ UNCHANGED <<speakers_data, up, td, md, exp, resp, deletes>>
    /\ UNCHANGED genvars

PairNext ==
    \/ \E r \in PairRuns : train_speaker_start(r)
    \/ \E r \in PairRuns : prepare_training_data(r)
    \/ \E r \in PairRuns : step_1a(r)
    \/ \E r \in PairRuns : step_1b(r)
    \/ \E r \in PairRuns : step_1c(r)
    \/ \E r \in PairRuns : train_stage1_gpt(r)
    \/ \E r \in PairRuns : train_stage2_sovits(r)
    \/ \E r \in PairRuns : write_model_info(r)
    \/ \E r \in PairRuns : mark_trained(r)
    \/ \E r \in PairRuns : save_begin(r)
    \/ \E r \in PairRuns : save_end(r)

\* two tasks, one for each of two speakers, running concurrently
PairSpec == PairInit /\ [][PairNext]_vars

----------------------------------------------------------------------------
(* Adding a sample: process_reference_audio with the "audio_files" lists *)

\* the files uploaded: what librosa.load reads of them
Uploads == {[duration |-> d, sample_rate |-> sr] : d \in {300, 650}, sr \in {22050, 32000}}

\* the entry appended for upload a: the duration is measured before resampling, the
\* copy is resampled to 32000 Hz unless the upload has that rate already
StoredSample(list, a) ==
    Sample(Len(list) + 1, a.duration, IF a.sample_rate # 32000 THEN 32000 ELSE a.sample_rate)

\* a new sample put in front of the list
PrependSample(list, a) == <<StoredSample(list, a)>> \o list

\* speakers_data[speaker_name]["audio_files"].append(...)
AppendSample(list, a) == Append(list, StoredSample(list, a))

\* process_reference_audio for upload a of speaker s; in AddSpec audio_files holds the
\* "audio_files" list of every known speaker
process_reference_audio(s, a) ==
    /\ (s \in DOMAIN speakers_data) => Len(audio_files[s]) <= MaxLen
    /\ LET known == s \in DOMAIN speakers_data
           entry == IF known THEN speakers_data[s] ELSE NewSpeaker
           list == AppendSample(IF known THEN audio_files[s] ELSE <<>>, a)
           names == DOMAIN speakers_data \cup {s}
           store == [x \in names |->
                        IF x = s THEN [entry EXCEPT !.n = Len(list)] ELSE speakers_data[x]]
           lists == [x \in names |-> IF x = s THEN list ELSE audio_files[x]]
       IN \E o \in {"ok", "load_failed", "save_failed"} :
            /\ speakers_data' = IF o = "load_failed" THEN speakers_data ELSE store
            /\ audio_files' = IF o = "load_failed" THEN audio_files ELSE lists
            /\ persisted' = IF o = "ok" THEN SaveOf(store) ELSE persisted
            /\ response' = IF o = "ok"
                           THEN [op |-> "upload", sp |-> s, success |-> TRUE,
                                 speaker_audio_count |-> Len(lists[s])]
                           ELSE [op |-> "upload", sp |-> s, success |-> FALSE,
                                 speaker_audio_count |-> 0]
    /\ UNCHANGED <<training_status, up, td, md, exp, run, resp, faults, deletes,
                   api_available, api_up, request>>

\* train_speaker's update of the entry of s and its save, after a pipeline that succeeded
complete_training(s) ==
    /\ s \in DOMAIN speakers_data
    /\ speakers_data[s].n >= MinSamples
    /\ ~speakers_data[s].trained
    /\ LET result == ResultOf([gpt |-> 1, sov |-> "weight"])
           store == [speakers_data EXCEPT ![s] = MarkTrained(@, result, 1)]
       IN speakers_data' = store /\ persisted' = SaveOf(store)
    /\ UNCHANGED <<training_status, up, td, md, exp, run, resp, faults, deletes,
                   audio_files, api_available, api_up, request, response>>

AddInit ==
    /\ speakers_data = EmptyStore
    /\ persisted = EmptyStore
    /\ audio_files = EmptyStore
    /\ training_status = [s \in Speakers |-> NotStarted]
    /\ up = [s \in Speakers |-> 0]
    /\ td = [s \in Speakers |-> NoDir]
    /\ md = [s \in Speakers |-> NoModelDir]
    /\ exp = [s \in Speakers |-> NoExp]
    /\ run = [r \in Runs |-> IdleRun]
    /\ resp = NoResp
    /\ faults = 0
    /\ deletes = 0
    /\ api_available = FALSE
    /\ api_up = FALSE
    /\ request = NoRequest
    /\ response = NoResponse

AddNext ==
    \/ \E s \in Speakers : \E a \in Uploads : process_reference_audio(s, a)
    \/ \E s \in Speakers : complete_training(s)

\* uploads for two speakers, and trainings that complete
AddSpec == AddInit /\ [][AddNext]_vars

----------------------------------------------------------------------------
(* Stage 2's choice among the files of logs_s2_v2 *)

\* the files s2_train.py may leave in logs_s2_v2 for a speaker whose name begins with
\* prefix p: exported weights {name}_e{N}.pth, generator checkpoints G_{step}.pth and
\* discriminator checkpoints D_{step}.pth. Of a file name the record keeps what the
\* filters of train_stage2_sovits look at: how it begins, whether it contains the
\* speaker's name and whether it contains "_e"
LogFiles(p) ==
    {[kind |-> "export", prefix |-> p, named |-> TRUE, tagged |-> TRUE, epoch |-> n] :
        n \in {4, 8, 12}}
    \cup {[kind |-> "raw", prefix |-> "G_", named |-> FALSE, tagged |-> FALSE, epoch |-> 0],
          [kind |-> "discriminator", prefix |-> "D_", named |-> FALSE, tagged |-> FALSE,
           epoch |-> 0]}

\* the filter of weight_files (every file of LogFiles ends with .pth)
IsWeightFile(f) == f.named /\ f.tagged /\ f.prefix # "G_" /\ f.prefix # "D_"

\* the filter of g_files
IsGFile(f) == f.prefix = "G_"

RECURSIVE Digits(_)
\* str(n)
Digits(n) == IF n < 10 THEN <<n>> ELSE Append(Digits(n \div 10), n % 10)

\* the order of the names {name}_e{a}.pth and {name}_e{b}.pth as strings: the first
\* place where the digits differ decides, and "." sorts before every digit
NameBefore(a, b) ==
    LET s == Digits(a)
        t == Digits(b)
        differ == {i \in 1..Min(Len(s), Len(t)) : s[i] # t[i]}
    IN IF differ = {} THEN Len(s) < Len(t)
       ELSE LET i == CHOOSE i \in differ : \A j \in differ : i <= j
            IN s[i] < t[i]

\* train_stage2_sovits after s2_train.py has exited: dir lists the files of logs_s2_v2
\* from the least to the most recently modified, ok is exit status 0, conv whether
\* _convert_checkpoint_to_weight returns a path. The answer names the file returned
\* (at: its place in dir), the converted export, or nothing (None)
Stage2Model(dir, ok, conv) ==
    LET places == DOMAIN dir
        weight_files == {i \in places : IsWeightFile(dir[i])}
        g_files == {i \in places : IsGFile(dir[i])}
        first == CHOOSE i \in weight_files :
                    \A j \in weight_files : j = i \/ NameBefore(dir[j].epoch, dir[i].epoch)
        newest == CHOOSE i \in g_files : \A j \in g_files : j <= i
    IN IF ~ok THEN [returned |-> "none", at |-> 0]
       ELSE IF weight_files # {} THEN [returned |-> "file", at |-> first]
       ELSE IF g_files = {} THEN [returned |-> "none", at |-> 0]
       ELSE IF conv THEN [returned |-> "converted", at |-> newest]
       ELSE [returned |-> "file", at |-> newest]

\* the call of ExportSpec returns
find_stage2_model ==
    /\ response = NoResponse
    /\ response' = [op |-> "stage2"] @@ Stage2Model(request.dir, request.ok, request.conv)
    /\ UNCHANGED <<audio_files, api_available, api_up, request>>
    /\ UNCHANGED <<speakers_data, persisted, training_status, up, td, md, exp, run, resp,
                   faults, deletes>>

\* a speaker whose name begins with "G_", with "D_" or otherwise, and a logs_s2_v2 of up
\* to MaxLen files with different names
ExportInit ==
    /\ \E p \in {"", "G_", "D_"} : \E n \in 0..MaxLen : \E dir \in [1..n -> LogFiles(p)] :
         /\ \A i, j \in 1..n : (i # j /\ dir[i].kind = "export") => dir[i] # dir[j]
         /\ \E ok \in BOOLEAN, conv \in BOOLEAN :
              request = [op |-> "stage2", prefix |-> p, dir |-> dir, ok |-> ok, conv |-> conv]
    /\ response = NoResponse
    /\ speakers_data = EmptyStore
    /\ persisted = EmptyStore
    /\ training_status = [s \in Speakers |-> NotStarted]
    /\ up = [s \in Speakers |-> 0]
    /\ td = [s \in Speakers |-> NoDir]
    /\ md = [s \in Speakers |-> NoModelDir]
    /\ exp = [s \in Speakers |-> NoExp]
    /\ run = [r \in Runs |-> IdleRun]
    /\ resp = NoResp
    /\ faults = 0
    /\ deletes = 0
    /\ audio_files = <<>>
    /\ api_available = FALSE
    /\ api_up = FALSE

ExportNext == find_stage2_model

\* stage 2's choice for every such speaker and directory
ExportSpec == ExportInit /\ [][ExportNext]_vars

----------------------------------------------------------------------------
(* Data-prep file by file: the staged copies and the lines of input_text.txt *)

\* f"{speaker_name}_{i:04d}{ext}" for the sample at place i of the list (enumerate
\* counts from 0, the places of a sequence from 1)
StagedName(i, sample) == [index |-> i - 1, ext |-> sample.ext]

\* the copy loop's copied_files: the staged names of the samples whose source file
\* exists, in list order; the others are skipped
CopiedFiles(files) ==
    LET places == SelectSeq([i \in 1..Len(files) |-> i], LAMBDA i : files[i].exists)
    IN [j \in 1..Len(places) |-> StagedName(places[j], files[places[j]])]

\* a line of input_text.txt: a staged file and a transcript; `of` is the 0-based place
\* of the sample the transcript belongs to (-1: no sample of this list), `src` where
\* the transcript comes from
Line(staged, src, of) == [staged |-> staged, src |-> src, of |-> of]

NoManifest == [kind |-> "", lines |-> {}]

\* the lines written from audio_text_map: zip(audio_files, copied_files)
MapLines(files, copied) ==
    {Line(copied[j], "map", j - 1) : j \in 1..Min(Len(files), Len(copied))}

\* the list execute_asr writes for input_wavs: every file of the folder with what is
\* heard in it; only the files in `copied` hold a sample of this list
AsrLines(wavs, copied) ==
    {Line(w, "asr", IF \E j \in DOMAIN copied : copied[j] = w THEN w.index ELSE -1) :
        w \in wavs}

PlaceholderLines(copied) == {Line(copied[j], "placeholder", -1) : j \in DOMAIN copied}

\* the test for an existing input_text.txt that is kept: its first line is long and
\* is not the placeholder sentence
ManifestReusable(m) == m.kind \in {"map", "asr"} /\ m.lines # {}

\* input_text.txt as prepare_training_data leaves it: old is the file found, map
\* whether audio_text_map is given, asr whether the ASR collaborator works
Manifest(old, files, wavs, map, asr) ==
    LET copied == CopiedFiles(files)
    IN IF ManifestReusable(old) THEN old
       ELSE IF map THEN [kind |-> "map", lines |-> MapLines(files, copied)]
       ELSE IF asr THEN [kind |-> "asr", lines |-> AsrLines(wavs, copied)]
       ELSE [kind |-> "placeholder", lines |-> PlaceholderLines(copied)]

\* what an earlier run for k samples (all present, .wav) has left in the experiment
\* directory: its staged files, and its manifest if it wrote one
EarlierStaged(k) == {[index |-> i, ext |-> ".wav"] : i \in 0..(k - 1)}

EarlierManifests(k) ==
    {NoManifest}
    \cup (IF k = 0 THEN {}
          ELSE {[kind |-> "asr", lines |-> {Line(w, "earlier", -1) : w \in EarlierStaged(k)}],
                [kind |-> "placeholder", lines |-> PlaceholderLines(
                    [j \in 1..k |-> [index |-> j - 1, ext |-> ".wav"]])]})

\* prepare_training_data, called with the list request.files
stage_samples ==
    /\ response = NoResponse
    /\ LET copied == CopiedFiles(request.files)
           wavs == request.staged \cup {copied[j] : j \in DOMAIN copied}
       IN response' = [op |-> "prepare", copied |-> copied, wavs |-> wavs,
                       manifest |-> Manifest(request.old, request.files, wavs,
                                             request.map, request.asr)]
    /\ UNCHANGED <<audio_files, api_available, api_up, request>>
    /\ UNCHANGED <<speakers_data, persisted, training_status, up, td, md, exp, run, resp,
                   faults, deletes>>

\* a list of up to MaxLen samples, some of them with a missing source file, and an
\* experiment directory new or left by an earlier run
StagingInit ==
    /\ \E n \in 0..MaxLen : \E files \in [1..n -> [exists : BOOLEAN, ext : {".wav", ".mp3"}]] :
       \E k \in 0..MaxLen : \E old \in EarlierManifests(k) :
       \E map \in BOOLEAN, asr \in BOOLEAN :
          request = [op |-> "prepare", files |-> files, staged |-> EarlierStaged(k),
                     old |-> old, map |-> map, asr |-> asr]
    /\ response = NoResponse
    /\ speakers_data = EmptyStore
    /\ persisted = EmptyStore
    /\ training_status = [s \in Speakers |-> NotStarted]
    /\ up = [s \in Speakers |-> 0]
    /\ td = [s \in Speakers |-> NoDir]
    /\ md = [s \in Speakers |-> NoModelDir]
    /\ exp = [s \in Speakers |-> NoExp]
    /\ run = [r \in Runs |-> IdleRun]
    /\ resp = NoResp
    /\ faults = 0
    /\ deletes = 0
    /\ audio_files = <<>>
    /\ api_available = FALSE
    /\ api_up = FALSE

StagingNext == stage_samples

\* data-prep for every such list and directory
StagingSpec == StagingInit /\ [][StagingNext]_vars

----------------------------------------------------------------------------
(* The API client request by request: GPTSoVITSAPIClient.generate_with_trained_model *)

\* what the service does with a request: it answers 200, it answers another status,
\* or requests.get / requests.post raises (refused connection, timeout)
ServiceAnswers == {"200", "400", "raised"}

\* a request as the service sees it, with the answer it got
Sent(to, arg, answer) == [to |-> to, arg |-> arg, answer |-> answer]

\* a weight-setting call that reports success whatever the service answered
WeightsSetAlways(answer) == TRUE

\* set_gpt_weights and set_sovits_weights: True only for status 200; another status
\* and a raised exception both give False
WeightsSet(answer) == answer = "200"

\* the three os.path.exists tests generate_with_trained_model starts with
FilesPresent(call) == call.gpt.exists /\ call.sovits.exists /\ call.ref.exists

\* a call that has returned ok
ReturnedFrom(call, ok) == [call EXCEPT !.pc = "returned", !.ok = ok]

\* the checks of the three paths
check_model_files ==
    /\ response.pc = "check"
    /\ response' = IF FilesPresent(request) THEN [response EXCEPT !.pc = "gpt"]
                   ELSE ReturnedFrom(response, FALSE)
    /\ UNCHANGED <<audio_files, api_available, api_up, request>>
    /\ UNCHANGED <<speakers_data, persisted, training_status, up, td, md, exp, run, resp,
                   faults, deletes>>

\* self.set_gpt_weights(gpt_model_path) and the test of its result
set_gpt_weights ==
    /\ response.pc = "gpt"
    /\ \E a \in ServiceAnswers :
          LET sent == Append(response.sent, Sent("set_gpt_weights", request.gpt.path, a))
          IN response' = IF WeightsSet(a)
                         THEN [response EXCEPT !.pc = "sovits", !.sent = sent]
                         ELSE ReturnedFrom([response EXCEPT !.sent = sent], FALSE)
    /\ UNCHANGED <<audio_files, api_available, api_up, request>>
    /\ UNCHANGED <<speakers_data, persisted, training_status, up, td, md, exp, run, resp,
                   faults, deletes>>

\* self.set_sovits_weights(sovits_model_path) and the test of its result
set_sovits_weights ==
    /\ response.pc = "sovits"
    /\ \E a \in ServiceAnswers :
          LET sent == Append(response.sent,
                             Sent("set_sovits_weights", request.sovits.path, a))
          IN response' = IF WeightsSet(a)
                         THEN [response EXCEPT !.pc = "tts", !.sent = sent]
                         ELSE ReturnedFrom([response EXCEPT !.sent = sent], FALSE)
    /\ UNCHANGED <<audio_files, api_available, api_up, request>>
    /\ UNCHANGED <<speakers_data, persisted, training_status, up, td, md, exp, run, resp,
                   faults, deletes>>

\* the client's generate_speech: the POST to /tts, True when it is answered with 200
post_tts ==
    /\ response.pc = "tts"
    /\ \E a \in ServiceAnswers :
          response' = ReturnedFrom(
              [response EXCEPT !.sent = Append(@, Sent("tts", request.text, a))],
              a = "200")
    /\ UNCHANGED <<audio_files, api_available, api_up, request>>
    /\ UNCHANGED <<speakers_data, persisted, training_status, up, td, md, exp, run, resp,
                   faults, deletes>>

\* a call with the paths of a model_info and of a reference sample, each file on disk
\* or not, and a text
ClientInit ==
    /\ \E g \in BOOLEAN, s \in BOOLEAN, f \in BOOLEAN :
       \E sov \in {"logs_s2_v2/weight", "logs_s2_v2/G"} :
       \E text \in TextsUpTo(MaxRequestChars), lang \in {"zh", "en"} :
          request = [op |-> "trained",
                     gpt |-> [path |-> "logs_s1/ckpt", exists |-> g],
                     sovits |-> [path |-> sov, exists |-> s],
                     ref |-> [path |-> "ref.wav", exists |-> f],
                     text |-> text, text_lang |-> lang]
    /\ response = [pc |-> "check", sent |-> <<>>, ok |-> FALSE]
    /\ speakers_data = EmptyStore
    /\ persisted = EmptyStore
    /\ training_status = [s \in Speakers |-> NotStarted]
    /\ up = [s \in Speakers |-> 0]
    /\ td = [s \in Speakers |-> NoDir]
    /\ md = [s \in Speakers |-> NoModelDir]
    /\ exp = [s \in Speakers |-> NoExp]
    /\ run = [r \in Runs |-> IdleRun]
    /\ resp = NoResp
    /\ faults = 0
    /\ deletes = 0
    /\ audio_files = <<>>
    /\ api_available = TRUE
    /\ api_up = TRUE

ClientNext ==
    \/ check_model_files
    \/ set_gpt_weights
    \/ set_sovits_weights
    \/ post_tts

\* the client's call for every such set of files and every answer of the service
ClientSpec == ClientInit /\ [][ClientNext]_vars

----------------------------------------------------------------------------
(* Properties *)

\* the positions of a task inside train_speaker's pipeline
PipelinePcs == {"prep", "1a", "1b", "1c", "s1", "s2", "record"}

\* run r is between train_speaker's precondition and its return
Active(r) == run[r].pc \in PipelinePcs

\* run r takes a step of train_speaker
Steps(r) == run'[r].pc # run[r].pc /\ run[r].pc \in PipelinePcs \cup {"queued"}

\* run r is the only task of its speaker inside the pipeline
Alone(r) == \A q \in Runs : q # r /\ Active(q) => run[q].sp # run[r].sp

\* C1: while the tracker shows `training` for a speaker, a second train_speaker call
\* for that speaker is rejected and launches no stage, so two pipelines never run at
\* the same time for the same speaker on the same experiment directory.
C1_OnePipelinePerSpeaker == \A r \in Runs : Active(r) => Alone(r)

\* C2: whenever a speaker's trained flag is true its model-info holds a non-empty GPT
\* path and a non-empty SoVITS path, and both files existed on disk when the run that
\* set the flag completed.
C2_TrainedHasModelFiles ==
    /\ [](\A s \in DOMAIN speakers_data :
             speakers_data[s].trained
                 => speakers_data[s].info.gpt # "" /\ speakers_data[s].info.sovits # "")
    /\ [][\A r \in Runs :
             run[r].pc = "record" /\ run'[r].pc = "done"
                 => /\ FileExists(exp[run[r].sp], ResultOf(run[r]).gpt)
                    /\ FileExists(exp[run[r].sp], ResultOf(run[r]).sovits)]_vars

\* the order in which train_speaker_complete launches its external steps
StepOrder == <<"prep", "1a", "1b", "1c", "s1", "s2">>

\* the step launched before step k ("" for the first)
Before(k) ==
    IF k = StepOrder[1] THEN ""
    ELSE LET i == CHOOSE j \in 2..Len(StepOrder) : StepOrder[j] = k IN StepOrder[i - 1]

\* C3: within a run the steps are launched in the fixed order data-prep, 1a, 1b, 1c,
\* stage-1 trainer, stage-2 trainer; each is launched only after the one before it
\* has finished successfully, and after a failure no later step is launched.
C3_StepsInOrder ==
    [][\A r \in Runs :
          /\ run'[r].last.step # run[r].last.step
                => /\ run[r].last.step = Before(run'[r].last.step)
                   /\ run[r].last.step # "" => run[r].last.res = "ok"
          /\ run[r].last.res = "fail" => run'[r].last = run[r].last
          /\ run[r].pc = "failed" => run'[r] = run[r]]_vars

\* a run has launched every step and recorded its result
C3_Witness ==
    \E r \in Runs : run[r].pc = "done" /\ run[r].last = Step("s2", "ok")

\* C4: if a run fails at any step (data-prep, preprocessing, stage 1, stage 2 or the
\* recording of the result) the speaker's trained flag, model-info and trained-at, in
\* memory and persisted, are what they were before the run: no step of a run that
\* ends in failure changes them.
C4_FailedRunChangesNothing ==
    [][\A r \in Runs :
          Steps(r) /\ run'[r].pc # "done"
              => /\ TrainedFields(speakers_data', run[r].sp)
                       = TrainedFields(speakers_data, run[r].sp)
                 /\ TrainedFields(persisted', run[r].sp)
                       = TrainedFields(persisted, run[r].sp)]_vars

\* the error text that names the stage a failure came from
StageError(at) ==
    CASE at = "data-prep" -> "data_prep_failed"
      [] at = "preprocessing" -> "preprocessing_failed"
      [] at = "stage1" -> "stage1_failed"
      [] at = "stage2" -> "stage2_failed"
      [] OTHER -> "record_failed"

\* C5: when a run fails the tracker entry becomes `failed` and its error identifies
\* the stage the failure came from, for every stage and for a returned failure as well
\* as a raised exception.
C5_FailureNamesStage ==
    [][\A r \in Runs :
          Steps(r) /\ run'[r].pc = "failed"
              => /\ training_status'[run[r].sp].status = "failed"
                 /\ training_status'[run[r].sp].error = StageError(run'[r].at)]_vars
\* C6: a train_speaker call for a speaker with fewer than three samples always fails
\* with an insufficient-samples error, and no subprocess is launched: the endpoint
\* answers 400 and schedules nothing, and a scheduled task that finds fewer than three
\* samples ends with that error before the tracker, the directories or a step are
\* touched.
C6_TooFewSamplesRejected ==
    [][/\ \A s \in Requested :
             (/\ train_speaker_endpoint(s)
              /\ s \in DOMAIN speakers_data
              /\ speakers_data[s].n < 3)
                 => resp'.code = 400 /\ run' = run
       /\ \A r \in Runs :
             (/\ Steps(r)
              /\ run[r].pc = "queued"
              /\ run[r].sp \in DOMAIN speakers_data
              /\ speakers_data[run[r].sp].n < 3)
                 => /\ run'[r].pc = "rejected"
                    /\ run'[r].err = "insufficient_samples"
                    /\ run'[r].last = NoStep
                    /\ UNCHANGED <<training_status, exp, md>>]_vars

\* a scheduled task found fewer than three samples and was refused
C6_Witness ==
    \E r \in Runs : run[r].pc = "rejected" /\ run[r].err = "insufficient_samples"

\* C7: if the number of rows of the semantic-feature table differs from the number of
\* manifest entries after preprocessing, the run is aborted with a data-consistency
\* failure that reports the difference, and the stage-1 trainer is never launched.
C7_RowMismatchAborts ==
    [][\A r \in Runs :
          LET s == run[r].sp
          IN /\ Steps(r) /\ run[r].pc = "1c" /\ exp'[s].sem.n # exp'[s].text.n
                 => run'[r].pc = "failed" /\ run'[r].err = "data_consistency"
             /\ Steps(r) /\ run'[r].last.step = "s1"
                 => exp[s].sem.n = exp[s].text.n]_vars

\* an artifact slot holds nothing that a run other than r wrote
Fresh(tag, r) == tag \in {0, r}

\* the experiment directory holds nothing but what run r staged
OnlyStagedBy(e, r) ==
    /\ Fresh(e.wavs.run, r) /\ Fresh(e.text.run, r)
    /\ e.phon = NoRows /\ e.hub = 0 /\ e.sem = NoRows /\ e.n2t = 0
    /\ e.s1cfg = 0 /\ e.s1 = 0 /\ ~e.s2dir /\ e.s2w = 0 /\ e.s2g = 0

\* C8: at the start of every run the speaker's experiment directory is recreated
\* empty: once data-prep has staged the run's input, no staged audio, manifest or
\* stage output of an earlier attempt is visible to it (stated for a run that is
\* alone in the pipeline).
C8_RunStartsEmpty ==
    [][\A r \in Runs :
          Steps(r) /\ run[r].pc = "prep" /\ Alone(r)
              => OnlyStagedBy(exp'[run[r].sp], r)]_vars

\* C9: after delete_speaker of an existing speaker none of its artifacts exist
\* (uploads, stored samples, staged training data and experiment directory, model
\* files and model directory) and list_speakers does not include it (stated for a
\* speaker with no task in flight).
C9_DeleteRemovesEverything ==
    [][\A s \in Requested :
          (/\ delete_speaker(s)
           /\ s \in DOMAIN speakers_data
           /\ \A r \in Runs : run[r].sp = s => ~Active(r) /\ run[r].pc # "queued")
              => /\ s \notin DOMAIN speakers_data'
                 /\ up'[s] = 0 /\ td'[s] = NoDir /\ md'[s] = NoModelDir
                 /\ exp'[s] = NoExp]_vars

\* C10: delete_speaker of a speaker the store does not know fails with a not-found
\* error and leaves the in-memory store, the persisted record, the filesystem and the
\* tracker unchanged.
C10_DeleteUnknownChangesNothing ==
    [][\A s \in Requested :
          delete_speaker(s) /\ s \notin DOMAIN speakers_data
              => /\ resp' = [op |-> "delete", sp |-> s, code |-> 500]
                 /\ UNCHANGED <<speakers_data, persisted, training_status, fsvars>>]_vars

\* a delete of an unknown speaker was refused while files of that name were on disk
C10_Witness ==
    /\ resp = [op |-> "delete", sp |-> "alice", code |-> 500]
    /\ "alice" \notin DOMAIN speakers_data
    /\ exp["alice"].exists

----------------------------------------------------------------------------
(* Reference selection: properties, checked under ScorerSpec *)

\* the primary selection has been made
BestDone == response.best.state # "unset"

\* the auxiliary selection has been made
AuxDone == response.aux.state # "unset"

OutsideWindow(d) == d < 300 \/ d > 1000

\* a duration printed to one decimal place: within 0.05 s of the duration
ListedAs(tenths, d) == 10 * tenths - 5 <= d /\ d <= 10 * tenths + 5

\* C11: for a non-empty sample list whose durations all lie outside [3 s, 10 s],
\* primary selection fails with the no-eligible error, whose message lists the duration
\* of every input sample, in order; a sample of exactly 3 s or exactly 10 s is eligible:
\* a list that holds one gets a primary, and alone in its list it is the primary.
C11_NoEligibleListsDurations ==
    BestDone =>
        /\ ( /\ audio_files # <<>>
             /\ \A i \in DOMAIN audio_files : OutsideWindow(audio_files[i].duration) )
           => /\ response.best.state = "raised"
              /\ response.best.error = "no_eligible"
              /\ Len(response.best.durations) = Len(audio_files)
              /\ \A i \in DOMAIN audio_files :
                    ListedAs(response.best.durations[i], audio_files[i].duration)
        /\ (\E i \in DOMAIN audio_files : audio_files[i].duration \in {300, 1000})
           => /\ response.best.state = "returned"
              /\ Len(audio_files) = 1 => response.best.audio = audio_files[1]

\* the error was raised for a sample just below the window and one just above it
C11_Witness ==
    /\ response.best.state = "raised"
    /\ response.best.error = "no_eligible"
    /\ Len(audio_files) = 2
    /\ audio_files[1].duration = 296
    /\ audio_files[2].duration = 1004

InWindow(audio) == ~OutsideWindow(audio.duration)

ScoreOf(audio) == calculate_audio_quality_score(audio)

\* C12: selection is a function of the sample list, and among eligible samples of equal
\* score the one uploaded earlier (earlier in the list) is ranked first: no eligible
\* sample of the primary's score precedes the primary in the list, the primary precedes
\* every auxiliary of its score, and auxiliaries of equal score come in upload order.
C12_TiesByUploadOrder ==
    /\ response.best.state = "returned"
       => \A i \in DOMAIN audio_files :
             ( /\ InWindow(audio_files[i])
               /\ ScoreOf(audio_files[i]) = ScoreOf(response.best.audio) )
             => response.best.audio.path <= audio_files[i].path
    /\ AuxDone
       => \A i, j \in DOMAIN response.aux.audios :
             (i < j /\ ScoreOf(response.aux.audios[i]) = ScoreOf(response.aux.audios[j]))
             => response.aux.audios[i].path < response.aux.audios[j].path
    /\ (response.best.state = "returned" /\ AuxDone)
       => \A i \in DOMAIN response.aux.audios :
             ScoreOf(response.aux.audios[i]) = ScoreOf(response.best.audio)
             => response.best.audio.path < response.aux.audios[i].path

\* the second and third samples tie above the first: the second is the primary, the
\* third the first auxiliary
C12_Witness ==
    /\ response.best.state = "returned"
    /\ AuxDone
    /\ Len(audio_files) = 3
    /\ ScoreOf(audio_files[2]) = ScoreOf(audio_files[3])
    /\ ScoreOf(audio_files[1]) < ScoreOf(audio_files[2])
    /\ InWindow(audio_files[1]) /\ InWindow(audio_files[2]) /\ InWindow(audio_files[3])
    /\ response.best.audio = audio_files[2]
    /\ Len(response.aux.audios) >= 1
    /\ response.aux.audios[1] = audio_files[3]

\* the places in the list of the samples with a duration in [3 s, 10 s]
EligiblePlaces == {i \in DOMAIN audio_files : InWindow(audio_files[i])}

\* place i is ranked before place j: a higher score, or the same score and uploaded first
RankedBefore(i, j) ==
    \/ ScoreOf(audio_files[i]) > ScoreOf(audio_files[j])
    \/ ScoreOf(audio_files[i]) = ScoreOf(audio_files[j]) /\ i < j

\* the rank of an eligible sample, from 0
RankOf(i) == Cardinality({j \in EligiblePlaces : RankedBefore(j, i)})

\* C13: with the eligible samples ranked by descending score, the primary is rank 0 and
\* the auxiliaries are exactly ranks 1..min(requested count, eligible - 1), in rank
\* order: the auxiliary list holds neither the primary nor an ineligible sample nor a
\* duplicate, and it is empty when fewer than two samples are eligible.
C13_PrimaryAndAuxiliariesByRank ==
    /\ response.best.state = "returned"
       => \E i \in EligiblePlaces : RankOf(i) = 0 /\ response.best.audio = audio_files[i]
    /\ AuxDone
       => LET aux == response.aux.audios
              n == Cardinality(EligiblePlaces)
          IN /\ response.aux.state = "returned"
             /\ Len(aux) = IF n < 2 THEN 0 ELSE Min(request.count, n - 1)
             /\ \A k \in DOMAIN aux :
                   \E i \in EligiblePlaces : RankOf(i) = k /\ aux[k] = audio_files[i]
             /\ \A k \in DOMAIN aux : InWindow(aux[k])
             /\ \A k, l \in DOMAIN aux : k # l => aux[k] # aux[l]
             /\ response.best.state = "returned"
                => \A k \in DOMAIN aux : aux[k] # response.best.audio

\* two of three samples are eligible and two auxiliaries are asked for: one is returned
C13_Witness ==
    /\ response.best.state = "returned"
    /\ AuxDone
    /\ Len(audio_files) = 3
    /\ Cardinality(EligiblePlaces) = 2
    /\ request.count = 2
    /\ Len(response.aux.audios) = 1
    /\ response.aux.audios[1] # response.best.audio

\* the centre of the window of eligible durations
Centre == (MinDuration + MaxDuration) \div 2

FromCentre(d) == IF d >= Centre THEN d - Centre ELSE Centre - d

RateTerm(sr) == IF sr >= 32000 THEN 20 ELSE IF sr >= 22050 THEN 10 ELSE 0

\* C14: the score of an eligible sample is 50 plus a duration term plus a sample-rate
\* term (20 from 32000 Hz, 10 from 22050 Hz, else 0), within [0, 100], and the duration
\* term reflects centering within [3 s, 10 s]: of two eligible samples with the same
\* sample rate, the one whose duration is closer to the centre never scores lower.
C14_ScoreCentredInWindow ==
    response.best.state = "returned" =>
        LET scored == response.best.scored
        IN /\ \A k \in DOMAIN scored :
                 /\ scored[k][1] \in 0..100
                 /\ scored[k][1] >= 50 + RateTerm(scored[k][2].sample_rate)
           /\ \A k, l \in DOMAIN scored :
                 ( /\ scored[k][2].sample_rate = scored[l][2].sample_rate
                   /\ FromCentre(scored[k][2].duration) <= FromCentre(scored[l][2].duration) )
                 => scored[k][1] >= scored[l][1]

----------------------------------------------------------------------------
(* Speech generation: properties, checked under DispatchSpec and PlaceholderSpec *)

\* the last request named a speaker of the store
ServedSpeaker == request.op = "generate" /\ request.sp \in DOMAIN speakers_data

\* C15: a generation request for a speaker that is not trained but has samples (one of
\* them usable as a reference), made while the inference service is reachable, is not
\* rejected: the service is called with the references the selection picks and without
\* paths of model weights.
C15_UntrainedServedByReference ==
    ( /\ ServedSpeaker
      /\ ~speakers_data[request.sp].trained
      /\ \E i \in DOMAIN audio_files : InWindow(audio_files[i])
      /\ request.up
      /\ api_available )
    => /\ response.code = 200
       /\ response.via = "reference"
       /\ response.call.sent
       /\ response.call.gpt = "" /\ response.call.sovits = ""
       /\ response.call.ref = BestReference(audio_files).audio
       /\ response.call.aux = AuxiliaryReferences(audio_files, 5).audios

\* C16: whenever the inference service is unreachable at the time of a generation
\* request for a speaker that has samples, the request is answered with a placeholder
\* silent clip and does not fail.
C16_UnreachableGivesPlaceholder ==
    ( /\ ServedSpeaker
      /\ speakers_data[request.sp].n > 0
      /\ ~request.up )
    => /\ response.code = 200
       /\ response.via = "placeholder"
       /\ response.clip.kind = "silence"

\* C17: every response produced by the placeholder path is tagged as degraded: it does
\* not carry the result value a response produced by real synthesis carries.
C17_PlaceholderTagged ==
    response.via = "placeholder" => response.body # SuccessBody

\* the codes among Languages that start with "zh"
ZhCodes == {[code |-> "zh", upper |-> FALSE], [code |-> "zh-cn", upper |-> FALSE]}

\* C18: the placeholder clip lasts the estimate from the text's length (0.3 s a character
\* when the language code starts with "zh", 0.2 s a word otherwise) clamped to
\* [1 s, 30 s]: 1 s for an empty text, never more than 30 s.  Durations in tenths.
C18_PlaceholderDuration ==
    response # NoClip =>
        LET estimate == IF request.language \in ZhCodes
                        THEN 3 * request.text.chars ELSE 2 * request.text.words
        IN /\ response.kind = "silence"
           /\ response.duration =
                 IF estimate < 10 THEN 10 ELSE IF estimate > 300 THEN 300 ELSE estimate
           /\ request.text.chars = 0 => response.duration = 10
           /\ response.duration <= 300

\* a text of more than 150 words in a language counted by words got a clip of 30 s
C18_Witness ==
    /\ response # NoClip
    /\ request.language \notin ZhCodes
    /\ request.text.words > 150
    /\ response.duration = 300

----------------------------------------------------------------------------
(* Speaker store: properties, checked under Spec *)

\* what get(speaker) shows of a store: whether it holds the speaker, with how many
\* samples, and the fields training writes
Get(store, s) ==
    [n |-> IF s \in DOMAIN store THEN store[s].n ELSE 0, fields |-> TrainedFields(store, s)]

\* C19: when a mutation of the speaker store returns successfully (a sample added, a
\* speaker marked trained on completion of its training, a speaker deleted), the
\* persisted record equals the in-memory store and a get in the same process observes
\* the mutation.
C19_MutationsPersistedAndVisible ==
    [][ /\ \A s \in Requested :
             upload_audio(s)
             => /\ persisted' = speakers_data'
                /\ s \in list_speakers'
                /\ Get(speakers_data', s).n = Get(speakers_data, s).n + 1
        /\ \A s \in Requested :
             (delete_speaker(s) /\ resp'.code = 200)
             => /\ persisted' = speakers_data'
                /\ s \notin list_speakers'
        /\ \A r \in Runs :
             (record_result(r) /\ run'[r].pc = "done")
             => /\ persisted' = speakers_data'
                /\ Get(speakers_data', run[r].sp).fields.trained
                /\ Get(speakers_data', run[r].sp).fields.info = ResultOf(run[r])
      ]_vars

\* the samples an entry of the store references are on disk: the copies in the
\* speaker's training-data directory and the uploaded originals
SamplesExist(store, s) ==
    /\ td[s].exists
    /\ td[s].n >= store[s].n
    /\ up[s] >= store[s].n

\* C20: if the process crashes at any point during delete(speaker), the persisted store
\* loaded afterwards holds no entry that references sample files which no longer exist.
\* Checked under CrashSpec.
C20_CrashedDeleteLeavesNoDanglingEntry ==
    request.op = "restarted" =>
        /\ speakers_data = persisted
        /\ \A s \in DOMAIN speakers_data : SamplesExist(speakers_data, s)

----------------------------------------------------------------------------
(* Status tracker: properties, checked under Spec *)

Terminal == {"completed", "failed"}

\* C21: the tracker entry of a speaker only moves along not_started -> training ->
\* {completed | failed}: a speaker without an entry reads not_started, an entry is
\* written completed or failed only when it was training immediately before, and no
\* entry goes back to not_started.
C21_TrackerLifecycle ==
    [][\A s \in Speakers :
          LET old == get_training_status(s)
              new == training_status'[s]
          IN new # old =>
                /\ new.status \in Terminal => old.status = "training"
                /\ new.status # "not_started"
                /\ new.status \in {"training"} \cup Terminal
      ]_vars

\* the tracker entry of the speaker of run r is completed or failed
EntryTerminal(r) ==
    run[r].sp \in Speakers /\ training_status[run[r].sp].status \in Terminal

\* no task is inside train_speaker and no tracker entry reads training
NoneTraining ==
    /\ \A r \in Runs : ~Active(r)
    /\ \A s \in Speakers : training_status[s].status # "training"

\* C22: provided every external subprocess exits, every training run that has set the
\* tracker entry to training goes on to set it to completed or failed, whether a stage
\* returns failure, raises, cannot be launched or has its subprocess killed: again and
\* again every run has returned and no entry reads training.  Checked under LiveSpec.
C22_TrainingEnds == []<>NoneTraining

\* a run has ended as failed after a subprocess of the preprocessing exited abnormally
C22_Witness ==
    \E r \in Runs :
        /\ run[r].pc = "failed"
        /\ run[r].last = Step("1b", "fail")
        /\ EntryTerminal(r)

\* an entry as train_speaker writes it, whole: the default, the entry of a run under
\* way, of a completed run (with both model paths) or of a failed run (with its error)
WholeEntry(e) ==
    \/ e = NotStarted
    \/ e = TrainingEntry
    \/ /\ e.status = "completed" /\ e.error = ""
       /\ e.result.method = "gpt_sovits_trained"
       /\ e.result.gpt # "" /\ e.result.sovits # ""
    \/ e.status = "failed" /\ e.error # "" /\ e.result = NoInfo

ExpTags(e) ==
    {e.wavs.run, e.text.run, e.phon.run, e.hub, e.sem.run, e.n2t, e.s1cfg, e.s1, e.s2w, e.s2g}

\* task r has returned
Returned(r) == run[r].pc \in {"done", "failed", "rejected"}

\* C24: training runs for two different speakers that execute concurrently are
\* independent: the experiment directory of a speaker holds only files of the run of
\* that speaker, and a run that meets no abnormal outcome returns what it returns alone:
\* tracker entry `completed`, the speaker marked trained with the model-info of the run.
C24_RunsIndependent ==
    \A r \in PairRuns :
        LET s == run[r].sp
        IN /\ ExpTags(exp[s]) \subseteq {0, r}
           /\ (faults = 0 /\ Returned(r)) =>
                 /\ run[r].pc = "done"
                 /\ get_training_status(s) = CompletedEntry(speakers_data[s].info)
                 /\ speakers_data[s].trained
                 /\ speakers_data[s].trained_at = r

\* C25: when all four stages of a run have succeeded and train_speaker returns, the
\* model-info record of the run has been written to the speaker's model directory, the
\* persisted store marks the speaker trained, and the tracker entry is `completed` and
\* carries the pair of model paths the persisted store records.
C25_CompletedRunRecorded ==
    [][\A r \in Runs :
          (record_result(r) /\ run'[r].pc = "done")
              => LET s == run[r].sp
                 IN /\ md'[s] = [exists |-> TRUE, info |-> r]
                    /\ s \in DOMAIN persisted'
                    /\ persisted'[s].trained
                    /\ persisted'[s].info = ResultOf(run[r])
                    /\ get_training_status(s)' = CompletedEntry(persisted'[s].info)
      ]_vars

\* C26: adding a sample creates the speaker untrained when the store does not know it,
\* appends exactly one sample at the end of the speaker's list and returns the new
\* count; the samples already stored for the speaker, its trained flag and model-info,
\* and every other speaker are left as they were. Checked under AddSpec.
C26_AddSampleAppendsOne ==
    [][\A s \in Speakers : \A a \in Uploads :
          (response'.success /\ response'.sp = s /\ process_reference_audio(s, a))
              => LET known == s \in DOMAIN speakers_data
                     old == IF known THEN audio_files[s] ELSE <<>>
                     new == audio_files'[s]
                 IN /\ DOMAIN speakers_data' = DOMAIN speakers_data \cup {s}
                    /\ Len(new) = Len(old) + 1
                    /\ SubSeq(new, 1, Len(old)) = old
                    /\ new[Len(new)].duration = a.duration
                    /\ response'.speaker_audio_count = Len(new)
                    /\ speakers_data'[s].trained = (known /\ speakers_data[s].trained)
                    /\ speakers_data'[s].info = (IF known THEN speakers_data[s].info ELSE NoInfo)
                    /\ \A x \in DOMAIN speakers_data \ {s} :
                          speakers_data'[x] = speakers_data[x] /\ audio_files'[x] = audio_files[x]
      ]_vars

\* a sample was added to a trained speaker who had MaxLen samples, next to another speaker
C26_Witness ==
    /\ response.op = "upload" /\ response.success
    /\ response.speaker_audio_count = MaxLen + 1
    /\ speakers_data[response.sp].trained
    /\ DOMAIN speakers_data = Speakers

\* the failure a row-count check reports: how many rows the table is short of
RowMismatch(expected, found) == "row_mismatch: " \o ToString(expected - found)

\* C27: whenever, after step 1c, the semantic-feature table has a number of rows
\* other than the number of transcript entries, preprocessing reports failure (not
\* success with a warning) and the failure carries the row-count difference.
C27_MismatchFailsPreprocessing ==
    [][\A r \in Runs :
          LET s == run[r].sp
          IN (/\ step_1c(r)
              /\ run'[r].last = Step("1c", "ok")
              /\ exp'[s].sem.n # exp'[s].text.n)
                 => /\ run'[r].pc = "failed"
                    /\ run'[r].at = "preprocessing"
                    /\ run'[r].err = RowMismatch(exp'[s].text.n, exp'[s].sem.n)
      ]_vars

\* run r's step launches the stage-1 trainer
LaunchesStage1(r) == run'[r].last.step = "s1" /\ run[r].last.step # "s1"

\* C28: stage 1 launches the trainer subprocess only if the semantic-feature row count
\* equals the phoneme row count and is not zero; when the counts differ, the count is
\* zero or the semantic table cannot be loaded, stage 1 fails without launching a
\* subprocess and without writing s1_config.yaml.
C28_Stage1LaunchesOnEqualCounts ==
    [][\A r \in Runs :
          train_stage1_gpt(r)
              => LET s == run[r].sp
                     e == exp[s]
                 IN /\ LaunchesStage1(r) => (e.sem.n = e.phon.n /\ e.sem.n # 0)
                    /\ (e.sem.n # e.phon.n \/ e.sem.n = 0 \/ e.sem.run = 0)
                          => /\ run'[r].pc = "failed" /\ run'[r].at = "stage1"
                             /\ ~LaunchesStage1(r)
                             /\ exp'[s].s1cfg = e.s1cfg
                             /\ exp' = exp
      ]_vars

\* a run ended in stage 1 on tables of different, non-zero lengths: nothing was launched
\* and no configuration was ever written
C28_Witness ==
    \E r \in Runs :
        /\ run[r].pc = "failed" /\ run[r].at = "stage1" /\ run[r].last.step = "1c"
        /\ exp[run[r].sp].sem.n # exp[run[r].sp].phon.n
        /\ exp[run[r].sp].sem.n # 0 /\ exp[run[r].sp].phon.n # 0
        /\ exp[run[r].sp].s1cfg = 0

\* C29: when the stage-1 trainer exits with status 0, stage 1 returns the most recently
\* modified checkpoint of logs_s1 and fails when logs_s1 is missing or holds no
\* checkpoint; when the trainer exits with another status, stage 1 fails whichever
\* files are present.
C29_Stage1ReturnsNewestCheckpoint ==
    [][\A r \in Runs :
          (train_stage1_gpt(r) /\ LaunchesStage1(r))
              => LET newest == exp'[run[r].sp].s1
                     stopped == run'[r].pc = "failed" /\ run'[r].at = "stage1"
                 IN /\ (run'[r].last.res = "ok" /\ newest # 0)
                          => run'[r].pc = "s2" /\ run'[r].gpt = newest
                    /\ (run'[r].last.res = "ok" /\ newest = 0) => stopped
                    /\ run'[r].last.res = "fail" => stopped
      ]_vars

\* stage 1 has returned the checkpoint its trainer wrote, for a speaker whose logs_s1
\* another run has used and completed with
C29_Witness ==
    \E r, q \in Runs :
        /\ q # r
        /\ run[r].pc = "s2" /\ run[r].gpt = r
        /\ run[q].sp = run[r].sp /\ run[q].pc = "done"
        /\ exp[run[r].sp].s1 = r

\* the places of the files of one kind in the directory of the call
PlacesOf(kind) == {i \in DOMAIN request.dir : request.dir[i].kind = kind}

\* C30: after the stage-2 trainer has exited with status 0: if an exported weight file
\* of the speaker exists, stage 2 returns an exported weight file, never a raw
\* checkpoint; if only raw checkpoints exist, it returns the converted export when the
\* conversion succeeds and the most recently modified raw checkpoint when it fails; it
\* fails only when there is neither an export nor a raw checkpoint. Checked under
\* ExportSpec.
C30_Stage2PrefersExport ==
    (response # NoResponse /\ request.ok)
        => LET exports == PlacesOf("export")
               raws == PlacesOf("raw")
           IN /\ exports # {}
                    => \/ response.returned = "file" /\ response.at \in exports
                       \/ response.returned = "converted"
              /\ (exports = {} /\ raws # {})
                    => IF request.conv
                       THEN response.returned = "converted"
                       ELSE /\ response.returned = "file"
                            /\ response.at \in raws
                            /\ \A i \in raws : i <= response.at
              /\ response.returned = "none" => (exports = {} /\ raws = {})

\* C31: when several exported weight files {speaker}_e{N}.pth exist in logs_s2_v2 and
\* the trainer has exited with status 0, stage 2 returns the one with the numerically
\* highest epoch N, whatever the numbers of digits of the epochs. Checked under
\* ExportSpec.
C31_HighestEpochReturned ==
    (response # NoResponse /\ request.ok /\ Cardinality(PlacesOf("export")) >= 2)
        => /\ response.returned = "file"
           /\ response.at \in PlacesOf("export")
           /\ \A i \in PlacesOf("export") :
                 request.dir[i].epoch <= request.dir[response.at].epoch

\* C32: data-prep copies every sample (whose source file exists) to input_wavs as
\* {speaker}_{index:04d}{ext}, index being the sample's place in the speaker's list,
\* and every manifest line it writes from the samples' transcripts pairs a staged file
\* with the transcript of the sample that was copied to that file, also for lists in
\* which some source files are missing and skipped. Checked under StagingSpec.
C32_ManifestPairsStagedWithOwnTranscript ==
    response # NoResponse
        => /\ \A i \in DOMAIN request.files :
                 request.files[i].exists
                     => [index |-> i - 1, ext |-> request.files[i].ext] \in response.wavs
           /\ \A l \in response.manifest.lines :
                 l.src = "map" => /\ l.of = l.staged.index
                                  /\ request.files[l.of + 1].exists
                                  /\ request.files[l.of + 1].ext = l.staged.ext

\* the staged files the manifest has a line for
ManifestFiles(m) == {l.staged : l \in m.lines}

\* C33: the transcript manifest a run trains on is built from the supplied transcript
\* map when one is supplied, otherwise it is the transcription collaborator's output
\* for the audio staged in this run, and the placeholder only when transcription
\* fails, whatever earlier runs left in the experiment directory; its entries are
\* the files staged in this run. Checked under StagingSpec.
C33_ManifestPrecedence ==
    response # NoResponse
        => LET m == response.manifest
               src == IF request.map THEN "map"
                      ELSE IF request.asr THEN "asr" ELSE "placeholder"
           IN /\ m.kind = src
              /\ \A l \in m.lines : l.src = src
              /\ ManifestFiles(m) = {response.copied[j] : j \in DOMAIN response.copied}

\* C34: when preprocessing step 1a is launched, the experiment directory holds no
\* intermediate feature directory, feature manifest or checkpoint of stage 1 or
\* stage 2 that an earlier attempt generated (stated for a run that is alone in the
\* pipeline; what step 1a itself writes is the run's own). Checked under Spec.
C34_Step1aStartsWithoutEarlierOutput ==
    [][\A r \in Runs :
          (run[r].pc = "1a" /\ run'[r].last.step = "1a" /\ Steps(r) /\ Alone(r))
              => LET e == exp'[run[r].sp]
                 IN /\ Fresh(e.phon.run, r) /\ e.hub = 0 /\ e.sem = NoRows /\ e.n2t = 0
                    /\ e.s1 = 0 /\ ~e.s2dir /\ e.s2w = 0 /\ e.s2g = 0]_vars

\* C35: a speaker that is in the store with trained = true has both model files named
\* in its model-info on disk, after any sequence of uploads and of training runs that
\* succeed or fail; a later attempt for the speaker never removes a recorded file and
\* leaves the speaker marked trained with that path. Checked under Spec.
C35_TrainedModelFilesOnDisk ==
    \A s \in DOMAIN speakers_data :
        speakers_data[s].trained
            => /\ FileExists(exp[s], speakers_data[s].info.gpt)
               /\ FileExists(exp[s], speakers_data[s].info.sovits)

\* C36: when delete_speaker has run while a training run for the speaker was in
\* flight, then once the run has finished too the speaker is absent from the store
\* and from the saved list, it has no model directory and no model-info file on
\* disk, and the tracker does not report `completed` for it (stated for the last
\* run of the speaker to finish, with no upload for the speaker since the delete).
\* Checked under Spec.
C36_DeleteDuringTrainingWins ==
    [][\A r \in Runs :
          (Active(r) /\ ~run[r].live /\ run'[r].pc \in {"done", "failed"}
             /\ Alone(r) /\ up[run[r].sp] = 0)
              => LET s == run[r].sp
                 IN /\ s \notin DOMAIN speakers_data'
                    /\ s \notin DOMAIN persisted'
                    /\ md'[s] = NoModelDir
                    /\ training_status'[s].status # "completed"]_vars

\* C37: every train request the endpoint accepts (it answers with success and
\* schedules a background task) eventually makes the tracker entry of its speaker
\* `completed` or `failed`, under every interleaving with delete and upload requests
\* and with worker threads that are scheduled and subprocesses that exit; it never
\* leaves the status at `not_started`. Checked under LiveSpec.
C37_AcceptedRequestReachesVerdict ==
    \A r \in Runs, s \in Requested :
        (run[r].pc = "queued" /\ run[r].sp = s)
            ~> (training_status[s].status \in {"completed", "failed"})

\* C38: both model paths recorded when a run completes (in the tracker result and in
\* the speaker's model-info) name files the trainers of that same run wrote, never a
\* file an earlier attempt left in the experiment directory, after any sequence of
\* earlier attempts that succeeded or failed (stated for a run that is alone in the
\* pipeline when it records). Checked under Spec.
C38_RecordedModelsAreOwn ==
    [][\A r \in Runs :
          (run[r].pc = "record" /\ run'[r].pc = "done" /\ Alone(r))
              => /\ run[r].gpt = r /\ run[r].sovrun = r
                 /\ training_status'[run[r].sp].result = ResultOf(run[r])]_vars

\* the places of the log of the call at which a request to endpoint `to` stands
RequestsTo(to) == {i \in DOMAIN response.sent : response.sent[i].to = to}

\* C39: generate_with_trained_model sends the synthesis request only after the GPT
\* weights and then the SoVITS weights have both been set successfully, in that
\* order; it sends no request at all when the GPT model file, the SoVITS model file
\* or the reference audio is missing, and no SoVITS or synthesis request after a GPT
\* weight set that failed; in each of these cases it returns False. Checked under
\* ClientSpec.
C39_SynthesisAfterBothWeights ==
    LET sent == response.sent
        returned == response.pc = "returned"
    IN /\ \A i \in RequestsTo("tts") :
             /\ i = 3
             /\ sent[1] = Sent("set_gpt_weights", request.gpt.path, "200")
             /\ sent[2] = Sent("set_sovits_weights", request.sovits.path, "200")
       /\ ~FilesPresent(request) => sent = <<>> /\ (returned => ~response.ok)
       /\ (sent # <<>> /\ sent[1].answer # "200")
             => Len(sent) = 1 /\ (returned => ~response.ok)
       /\ (Len(sent) >= 2 /\ sent[2].answer # "200")
             => Len(sent) = 2 /\ (returned => ~response.ok)

\* a call has returned True after the three requests, each answered with 200
C39_Witness ==
    /\ response.pc = "returned" /\ response.ok
    /\ Len(response.sent) = 3 /\ response.sent[3].to = "tts"

====
